---------------------------- MODULE Spec2Model ----------------------------
(***************************************************************************)
(* A model of lightning-polar-scripts: the configuration loader, the two   *)
(* REST clients (CoreLightningClient, LNDClient) and the HTTP exchanges    *)
(* their operations perform against a backend whose replies are chosen     *)
(* nondeterministically.                                                   *)
(*                                                                         *)
(* Conventions.                                                            *)
(*   - An Optional value is a sequence of length 0 (None) or 1 (a value).  *)
(*   - A text built by an f-string is a sequence of string tokens: the     *)
(*     literal pieces and the interpolated values, in order.               *)
(*   - A decimal string (an environment variable, an int64 of LND's JSON)  *)
(*     is a sequence of digits; int() is the operator IntOf.               *)
(***************************************************************************)
EXTENDS Integers, Sequences, FiniteSets, TLC

VARIABLES
    environ,  \* the environment variables of the session
    config,   \* the PolarConfig the session loaded: node name -> NodeConfig
    fs,       \* the credential files present on disk: path -> content
    client,   \* the client object the session holds, or NoClient
    last,     \* the outcome of the most recent constructor or operation call
    http,     \* the HTTP requests that call issued, in order
    reads,    \* the files that call opened, in order
    raised,   \* whether an earlier call on this client object raised
    pc,       \* test_both_apis.py: the statement the script is at
    console,  \* test_both_apis.py: the lines printed so far
    lnd_result,   \* test_both_apis.py: what test_lnd() returned, once it has
    cln_result,   \* test_both_apis.py: what test_cln() returned, once it has
    exit_status   \* test_both_apis.py: the status of sys.exit, once called

\* The state of the test script.
script == <<pc, console, lnd_result, cln_result, exit_status>>

vars == <<environ, config, fs, client, last, http, reads, raised, script>>

---------------------------------------------------------------------------
(* Generic helpers *)

None == <<>>

Some(v) == <<v>>

IsNone(o) == Len(o) = 0

Range(s) == {s[i] : i \in 1..Len(s)}

RECURSIVE SumSeq(_)
SumSeq(s) == IF Len(s) = 0 THEN 0 ELSE s[1] + SumSeq(Tail(s))

\* The sequences over S of length at most n.
SeqsUpTo(S, n) == UNION {[1..k -> S] : k \in 0..n}

\* int(): the value of a sequence of decimal digits.
RECURSIVE IntOf(_)
IntOf(d) ==
    IF Len(d) = 0 THEN 0
    ELSE 10 * IntOf(SubSeq(d, 1, Len(d) - 1)) + d[Len(d)]

---------------------------------------------------------------------------
(* config.py: NodeConfig and the loaders *)

NodeConfig(name, impl, host, rpc_port, rest_port, macaroon, cert, rune, client_cert, client_key, ca_cert, socket) ==
    [name |-> name, implementation |-> impl, rpc_host |-> host,
     rpc_port |-> rpc_port, rest_port |-> rest_port,
     macaroon_path |-> macaroon, cert_path |-> cert,
     rune_path |-> rune, client_cert_path |-> client_cert,
     client_key_path |-> client_key, ca_cert_path |-> ca_cert,
     socket_path |-> socket]

\* Python truthiness of an Optional[str] read by os.getenv: None and ""
\* are false.
Truthy(o) == ~IsNone(o) /\ Len(o[1]) > 0

\* os.getenv(name, default)
GetenvOr(o, default) == IF IsNone(o) THEN default ELSE o[1]

\* The environment variables load_config_from_env reads.  Ports are digit
\* strings; paths and hosts are strings.
EnvNames ==
    {"CLN_SOCKET_PATH", "CLN_HOST", "CLN_REST_PORT", "CLN_RUNE_PATH",
     "CLN_CA_CERT_PATH", "CLN_CLIENT_CERT_PATH", "CLN_CLIENT_KEY_PATH",
     "LND_HOST", "LND_PORT", "LND_REST_PORT", "LND_MACAROON_PATH",
     "LND_CERT_PATH"}

BobFromEnv(env) ==
    NodeConfig("bob", "CLN",
               GetenvOr(env.CLN_HOST, "localhost"),
               IF Truthy(env.CLN_SOCKET_PATH) THEN 0
                                              ELSE IntOf(env.CLN_REST_PORT[1]),
               IF Truthy(env.CLN_REST_PORT)
                   THEN Some(IntOf(env.CLN_REST_PORT[1])) ELSE None,
               None, None,
               env.CLN_RUNE_PATH, env.CLN_CLIENT_CERT_PATH,
               env.CLN_CLIENT_KEY_PATH, env.CLN_CA_CERT_PATH,
               env.CLN_SOCKET_PATH)

AliceFromEnv(env) ==
    NodeConfig("alice", "LND",
               GetenvOr(env.LND_HOST, "localhost"),
               IF Truthy(env.LND_PORT) THEN IntOf(env.LND_PORT[1]) ELSE 10001,
               IF Truthy(env.LND_REST_PORT)
                   THEN Some(IntOf(env.LND_REST_PORT[1])) ELSE None,
               env.LND_MACAROON_PATH, env.LND_CERT_PATH,
               None, None, None, None, None)

\* load_config_from_env: the nodes dictionary (a function on the names set).
load_config_from_env(env) ==
    LET hasBob   == Truthy(env.CLN_SOCKET_PATH) \/ Truthy(env.CLN_REST_PORT)
        hasAlice == Truthy(env.LND_PORT) \/ Truthy(env.LND_REST_PORT)
        names    == (IF hasBob THEN {"bob"} ELSE {})
                        \cup (IF hasAlice THEN {"alice"} ELSE {})
    IN  [n \in names |-> IF n = "bob" THEN BobFromEnv(env)
                                      ELSE AliceFromEnv(env)]

PolarBase == "/Users/walter/.polar/networks/2/volumes/"

\* The default configuration load_config builds when neither the
\* environment nor a Polar network yields one.
DefaultConfig ==
    [n \in {"alice", "bob"} |->
        IF n = "alice"
        THEN NodeConfig("alice", "LND", "127.0.0.1", 11002, Some(8080),
                 Some(PolarBase \o "lnd/alice/data/chain/bitcoin/regtest/admin.macaroon"),
                 Some(PolarBase \o "lnd/alice/tls.cert"),
                 None, None, None, None, None)
        ELSE NodeConfig("bob", "CLN", "127.0.0.1", 0, Some(8182),
                 None, None,
                 Some(PolarBase \o "c-lightning/bob/lightningd/admin.rune"),
                 Some(PolarBase \o "c-lightning/bob/lightningd/regtest/client.pem"),
                 Some(PolarBase \o "c-lightning/bob/lightningd/regtest/client-key.pem"),
                 Some(PolarBase \o "c-lightning/bob/lightningd/regtest/ca.pem"),
                 None)]

\* load_polar_network_config for a network directory holding the given
\* lightningd and lnd volumes; the LND loop runs second and overwrites.
PolarNetworkConfig(clnNodes, lndNodes) ==
    [n \in clnNodes \cup lndNodes |->
        IF n \in lndNodes
        THEN NodeConfig(n, "LND", "127.0.0.1", 11002, Some(8081),
                 Some("volumes/" \o n \o "/lnd/data/chain/bitcoin/regtest/admin.macaroon"),
                 Some("volumes/" \o n \o "/lnd/tls.cert"),
                 None, None, None, None, None)
        ELSE NodeConfig(n, "CLN", "127.0.0.1", 0, Some(8182),
                 None, None,
                 Some("volumes/" \o n \o "/lightningd/admin.rune"),
                 Some("volumes/" \o n \o "/lightningd/regtest/client.pem"),
                 Some("volumes/" \o n \o "/lightningd/regtest/client-key.pem"),
                 Some("volumes/" \o n \o "/lightningd/regtest/ca.pem"),
                 None)]

\* load_config: the environment first, then a Polar network, then the
\* default.  polar is None when load_polar_network_config raises.
load_config(env, polar) ==
    LET env_nodes == load_config_from_env(env)
    IN  IF DOMAIN env_nodes # {} THEN env_nodes
        ELSE IF ~IsNone(polar) THEN polar[1]
        ELSE DefaultConfig

---------------------------------------------------------------------------
(* The sessions the model explores: environments, Polar networks, disks *)

Unset == [v \in EnvNames |-> None]

\* Only the legacy socket path of CLN is set.
EnvSocketOnly == [Unset EXCEPT !.CLN_SOCKET_PATH = Some("/cln/lightning-rpc")]

\* Both nodes fully configured for REST.
EnvRest ==
    [Unset EXCEPT !.CLN_REST_PORT = Some(<<8, 1, 8, 2>>),
                  !.CLN_RUNE_PATH = Some("/cln/admin.rune"),
                  !.CLN_CA_CERT_PATH = Some("/cln/ca.pem"),
                  !.CLN_CLIENT_CERT_PATH = Some("/cln/client.pem"),
                  !.CLN_CLIENT_KEY_PATH = Some("/cln/client-key.pem"),
                  !.LND_REST_PORT = Some(<<8, 0, 8, 1>>),
                  !.LND_MACAROON_PATH = Some("/lnd/admin.macaroon"),
                  !.LND_CERT_PATH = Some("/lnd/tls.cert")]

\* CLN's REST port given as "0", LND known by its gRPC port only.
EnvBare ==
    [Unset EXCEPT !.CLN_REST_PORT = Some(<<0>>),
                  !.LND_HOST = Some("lnd.local"),
                  !.LND_PORT = Some(<<1, 0, 0, 0, 9>>)]

\* LND's REST port given as "0".
EnvZeroPort == [Unset EXCEPT !.LND_REST_PORT = Some(<<0>>)]

Envs == {Unset, EnvSocketOnly, EnvRest, EnvBare, EnvZeroPort}

\* What load_polar_network_config yields: it raises (None), or it finds a
\* network with one lightningd volume and one lnd volume.
PolarOutcomes == {None, Some(PolarNetworkConfig({"bob"}, {"alice"}))}

\* The credential paths a configuration names.
CredentialPaths(nodes) ==
    UNION {Range(nodes[n].macaroon_path) \cup Range(nodes[n].cert_path)
             \cup Range(nodes[n].rune_path) \cup Range(nodes[n].ca_cert_path)
             \cup Range(nodes[n].client_cert_path)
             \cup Range(nodes[n].client_key_path) : n \in DOMAIN nodes}

\* The bytes of a credential file: a rune file is text with a trailing
\* newline, any other file is raw bytes.
RuneText == <<"r", "9", "=", "\n">>

MacaroonBytes == <<2, 171, 16>>

\* A disk holds all of the configuration's credential files or none.
Disks(nodes) == {{}, CredentialPaths(nodes)}

NodeNames == {"alice", "bob", "carol"}

---------------------------------------------------------------------------
(* Python exceptions and call outcomes *)

\* The classes an exception class is an instance of (itself and its bases).
Bases(cls) ==
    CASE cls = "requests.ConnectionError" ->
             {"requests.ConnectionError", "requests.RequestException", "OSError", "Exception"}
      [] cls = "requests.SSLError" ->
             {"requests.SSLError", "requests.ConnectionError",
              "requests.RequestException", "OSError", "Exception"}
      [] cls = "requests.HTTPError" ->
             {"requests.HTTPError", "requests.RequestException", "OSError", "Exception"}
      [] cls = "requests.JSONDecodeError" ->
             {"requests.JSONDecodeError", "requests.RequestException",
              "json.JSONDecodeError", "ValueError", "OSError", "Exception"}
      [] cls = "json.JSONDecodeError" ->
             {"json.JSONDecodeError", "ValueError", "Exception"}
      [] cls = "ConnectionError" -> {"ConnectionError", "OSError", "Exception"}
      [] OTHER -> {cls, "Exception"}

\* except handler: ... matches an exception of class cls
Catches(handler, cls) == handler \in Bases(cls)

Return(v) == [ok |-> TRUE, value |-> v]

Raise(cls, msg) == [ok |-> FALSE, cls |-> cls, msg |-> msg]

\* try: ... except Exception as e: raise cls(f"{prefix}{e}")
Reraise(out, cls, prefix) ==
    IF out.ok THEN out ELSE Raise(cls, prefix \o out.msg)

---------------------------------------------------------------------------
(* The requests library, as the clients use it *)

\* A backend's answer to one request: the transport fails, or a response
\* with a status and a body arrives.  json_exc is the class response.json()
\* raises on a malformed body: requests' own JSONDecodeError since 2.27,
\* the standard library's before.
TransportFailures == {"refused", "dns", "tls"}

HttpStatuses == {200, 404, 500}

JsonErrorClasses == {"requests.JSONDecodeError", "json.JSONDecodeError"}

FailedReply(net) == [net |-> net, status |-> 0, json_ok |-> FALSE, json_exc |-> "", body |-> <<>>]

StatusReply(status) == [net |-> "ok", status |-> status, json_ok |-> FALSE, json_exc |-> "", body |-> <<>>]

MalformedReply(exc) == [net |-> "ok", status |-> 200, json_ok |-> FALSE, json_exc |-> exc, body |-> <<>>]

JsonReply(body) == [net |-> "ok", status |-> 200, json_ok |-> TRUE, json_exc |-> "", body |-> body]

\* The replies that make a request fail.
BadReplies ==
    {FailedReply(n) : n \in TransportFailures}
        \cup {StatusReply(s) : s \in HttpStatuses \ {200}}
        \cup {MalformedReply(e) : e \in JsonErrorClasses}

\* session.post / requests.get / ...: the response, or a transport error.
Send(req, reply) ==
    IF reply.net = "ok" THEN Return(reply)
    ELSE Raise(IF reply.net = "tls" THEN "requests.SSLError"
                                    ELSE "requests.ConnectionError",
               <<"Max retries exceeded: ", reply.net>>)

\* response.raise_for_status()
raise_for_status(req, response) ==
    IF response.status >= 400 /\ response.status < 600
    THEN Raise("requests.HTTPError",
               <<ToString(response.status), " Error for url: ", req.url>>)
    ELSE Return(response)

\* response.json()
ResponseJson(response) ==
    IF response.json_ok THEN Return(response.body)
    ELSE Raise(response.json_exc, <<"Expecting value: line 1 column 1 (char 0)">>)

\* The three library calls of a request primitive, in order.
Exchange(req, reply) ==
    LET sent == Send(req, reply)
    IN  IF ~sent.ok THEN sent
        ELSE LET checked == raise_for_status(req, sent.value)
             IN  IF ~checked.ok THEN checked
                 ELSE ResponseJson(checked.value)

\* One entry of http: the request, the backend's reply, and what the
\* request primitive gave back to the operation.
Call(req, reply, out) == [req |-> req, reply |-> reply, out |-> out]

---------------------------------------------------------------------------
(* JSON objects: functions from keys to values *)

EmptyObject == <<>>

\* dict.get(key): None when the key is absent.
Get(obj, key) == IF key \in DOMAIN obj THEN Some(obj[key]) ELSE None

\* dict.get(key, default)
GetOr(obj, key, default) == IF key \in DOMAIN obj THEN obj[key] ELSE default

\* The record {k: obj.get(src[k]) for k in the keys of src}.
Pick(obj, src) == [k \in DOMAIN src |-> Get(obj, src[k])]

---------------------------------------------------------------------------
(* core_lightning.py: CoreLightningClient *)

NoClient == [kind |-> "none"]

IsSpace(ch) == ch \in {" ", "\n", "\t"}

\* str.strip()
RECURSIVE Strip(_)
Strip(text) ==
    IF Len(text) = 0 THEN text
    ELSE IF IsSpace(text[1]) THEN Strip(Tail(text))
    ELSE IF IsSpace(text[Len(text)]) THEN Strip(SubSeq(text, 1, Len(text) - 1))
    ELSE text

DefaultVerify == [check |-> TRUE, ca |-> None]

\* _setup_auth: the session's headers, client certificate and verification,
\* and the files it opened.  A rune file that cannot be opened is skipped.
CLN_setup_auth(nc, disk) ==
    LET hasRune == Truthy(nc.rune_path)
        rune    == nc.rune_path[1]
    IN  [headers |-> IF hasRune /\ rune \in disk
                     THEN {<<"Rune", Strip(RuneText)>>} ELSE {},
         cert    |-> IF Truthy(nc.client_cert_path) /\ Truthy(nc.client_key_path)
                     THEN Some(<<nc.client_cert_path[1], nc.client_key_path[1]>>)
                     ELSE None,
         verify  |-> IF Truthy(nc.ca_cert_path)
                     THEN [check |-> TRUE, ca |-> nc.ca_cert_path]
                     ELSE DefaultVerify,
         reads   |-> IF hasRune THEN <<rune>> ELSE <<>>]

\* not rest_port: None and 0 are false.
PortConfigured(rest_port) == ~IsNone(rest_port) /\ rest_port[1] # 0

\* The client __init__ builds once its checks have passed.
CLN_client(nc, disk, node_name, port) ==
    LET auth == CLN_setup_auth(nc, disk)
    IN  [out |-> Return([kind |-> "CLN", node_name |-> node_name,
                         base_url |-> "http://" \o nc.rpc_host \o ":" \o ToString(port),
                         headers |-> auth.headers, cert |-> auth.cert,
                         verify |-> auth.verify]),
         reads |-> auth.reads]

Failed(cls, msg) == [out |-> Raise(cls, msg), reads |-> <<>>]

\* __init__ as it would be if an unknown node were reported as unreachable.
CLN_init_UnknownUnreachable(nodes, disk, node_name) ==
    IF node_name \notin DOMAIN nodes
    THEN Failed("ConnectionError", <<"Node '", node_name, "' not found in configuration">>)
    ELSE LET nc == nodes[node_name] IN
         IF nc.implementation # "CLN"
         THEN Failed("ValueError", <<"Node '", node_name, "' is not a Core Lightning node">>)
         ELSE IF ~PortConfigured(nc.rest_port)
         THEN Failed("ValueError", <<"REST port not configured for node '", node_name, "'">>)
         ELSE CLN_client(nc, disk, node_name, nc.rest_port[1])

\* __init__ as it would be without the check of the node's implementation.
CLN_init_AnyImplementation(nodes, disk, node_name) ==
    IF node_name \notin DOMAIN nodes
    THEN Failed("ValueError", <<"Node '", node_name, "' not found in configuration">>)
    ELSE LET nc == nodes[node_name] IN
         IF ~PortConfigured(nc.rest_port)
         THEN Failed("ValueError", <<"REST port not configured for node '", node_name, "'">>)
         ELSE CLN_client(nc, disk, node_name, nc.rest_port[1])

\* __init__ as it would be with a fallback REST port, as LNDClient has one.
CLN_init_FallbackPort(nodes, disk, node_name) ==
    IF node_name \notin DOMAIN nodes
    THEN Failed("ValueError", <<"Node '", node_name, "' not found in configuration">>)
    ELSE LET nc == nodes[node_name] IN
         IF nc.implementation # "CLN"
         THEN Failed("ValueError", <<"Node '", node_name, "' is not a Core Lightning node">>)
         ELSE CLN_client(nc, disk, node_name,
                         IF PortConfigured(nc.rest_port) THEN nc.rest_port[1] ELSE 8182)

\* CoreLightningClient.__init__: the client, or the error raised, and the
\* files opened on the way.
CLN_init(nodes, disk, node_name) ==
    IF node_name \notin DOMAIN nodes
    THEN Failed("ValueError", <<"Node '", node_name, "' not found in configuration">>)
    ELSE LET nc == nodes[node_name] IN
         IF nc.implementation # "CLN"
         THEN Failed("ValueError", <<"Node '", node_name, "' is not a Core Lightning node">>)
         ELSE IF ~PortConfigured(nc.rest_port)
         THEN Failed("ValueError", <<"REST port not configured for node '", node_name, "'">>)
         ELSE CLN_client(nc, disk, node_name, nc.rest_port[1])

\* A request as the transport sees it; json is None when no body is sent.
Request(verb, url, body, c) ==
    [verb |-> verb, url |-> url, json |-> body, headers |-> c.headers,
     cert |-> c.cert, verify |-> c.verify]

\* _make_request: one POST to {base_url}/v1/{method}.  params is the
\* parameter object; None and {} are both sent as {}.
CLN_make_request(c, method, params, reply) ==
    LET req == Request("POST", c.base_url \o "/v1/" \o method,
                       Some(IF DOMAIN params # {} THEN params ELSE EmptyObject), c)
        got == Exchange(req, reply)
        out == IF got.ok THEN got
               ELSE IF Catches("requests.RequestException", got.cls)
               THEN Raise("ConnectionError",
                          <<"Failed to connect to CLN node '", c.node_name, "': ">> \o got.msg)
               ELSE IF Catches("json.JSONDecodeError", got.cls)
               THEN Raise("RuntimeError",
                          <<"Invalid JSON response from CLN node '", c.node_name, "': ">> \o got.msg)
               ELSE got
    IN  Call(req, reply, out)

\* What an operation hands back: its outcome and the calls it made.
Done(out, calls) == [out |-> out, http |-> calls]

\* try: <body> except Exception as e: raise cls(f"Failed to {what} CLN node
\* '{node_name}': {e}"), where the body's outcome is post when the request
\* succeeded and the request's error otherwise.
CLN_guard(c, call, post, cls, what) ==
    Done(Reraise(IF call.out.ok THEN post ELSE call.out, cls,
                 <<"Failed to ", what, " CLN node '", c.node_name, "': ">>),
         <<call>>)

\* get_info as it would be if it read the identity under LND's field name.
CLN_get_info_WrongIdentityKey(c, reply) ==
    LET call == CLN_make_request(c, "getinfo", EmptyObject, reply)
        info == call.out.value
    IN  CLN_guard(c, call,
            Return(Pick(info, [id |-> "identity_pubkey", alias |-> "alias", color |-> "color",
                               num_peers |-> "num_peers",
                               num_pending_channels |-> "num_pending_channels",
                               num_active_channels |-> "num_active_channels",
                               num_inactive_channels |-> "num_inactive_channels",
                               blockheight |-> "blockheight", network |-> "network",
                               version |-> "version"])),
            "ConnectionError", "get info from")

CLN_get_info(c, reply) ==
    LET call == CLN_make_request(c, "getinfo", EmptyObject, reply)
        info == call.out.value
    IN  CLN_guard(c, call,
            Return(Pick(info, [id |-> "id", alias |-> "alias", color |-> "color",
                               num_peers |-> "num_peers",
                               num_pending_channels |-> "num_pending_channels",
                               num_active_channels |-> "num_active_channels",
                               num_inactive_channels |-> "num_inactive_channels",
                               blockheight |-> "blockheight", network |-> "network",
                               version |-> "version"])),
            "ConnectionError", "get info from")

\* sum(item[key] for item in items if keep(item)): the sum, or the KeyError
\* of the first kept item without the key.
SumField(items, key, kept) ==
    LET idx == {i \in 1..Len(items) : kept[i]}
    IN  IF \E i \in idx : key \notin DOMAIN items[i]
        THEN Raise("KeyError", <<"'", key, "'">>)
        ELSE Return(SumSeq([i \in 1..Len(items) |->
                               IF kept[i] THEN items[i][key] ELSE 0]))

\* get_balance as it would be if it summed every output, whatever its status.
CLN_get_balance_AnyStatus(c, reply) ==
    LET call     == CLN_make_request(c, "listfunds", EmptyObject, reply)
        balance  == call.out.value
        outputs  == GetOr(balance, "outputs", <<>>)
        channels == GetOr(balance, "channels", <<>>)
        total_outputs  == SumField(outputs, "amount_msat", [i \in 1..Len(outputs) |-> TRUE])
        total_channels == SumField(channels, "our_amount_msat",
                              [i \in 1..Len(channels) |-> TRUE])
    IN  CLN_guard(c, call,
            IF ~total_outputs.ok THEN total_outputs
            ELSE IF ~total_channels.ok THEN total_channels
            ELSE Return((total_outputs.value + total_channels.value) \div 1000),
            "ConnectionError", "get balance from")

CLN_get_balance(c, reply) ==
    LET call     == CLN_make_request(c, "listfunds", EmptyObject, reply)
        balance  == call.out.value
        outputs  == GetOr(balance, "outputs", <<>>)
        channels == GetOr(balance, "channels", <<>>)
        total_outputs  == SumField(outputs, "amount_msat",
                              [i \in 1..Len(outputs) |->
                                  Get(outputs[i], "status") = Some("confirmed")])
        total_channels == SumField(channels, "our_amount_msat",
                              [i \in 1..Len(channels) |-> TRUE])
    IN  CLN_guard(c, call,
            IF ~total_outputs.ok THEN total_outputs
            ELSE IF ~total_channels.ok THEN total_channels
            ELSE Return((total_outputs.value + total_channels.value) \div 1000),
            "ConnectionError", "get balance from")

\* list_channels as it would be if it answered a failed request with no
\* channels.
CLN_list_channels_EmptyOnFailure(c, reply) ==
    LET call == CLN_make_request(c, "listchannels", EmptyObject, reply)
    IN  Done(IF call.out.ok THEN Return(GetOr(call.out.value, "channels", <<>>))
                            ELSE Return(<<>>),
             <<call>>)

CLN_list_channels(c, reply) ==
    LET call == CLN_make_request(c, "listchannels", EmptyObject, reply)
    IN  CLN_guard(c, call, Return(GetOr(call.out.value, "channels", <<>>)),
                  "ConnectionError", "list channels from")

CLN_list_peers(c, reply) ==
    LET call == CLN_make_request(c, "listpeers", EmptyObject, reply)
    IN  CLN_guard(c, call, Return(GetOr(call.out.value, "peers", <<>>)),
                  "ConnectionError", "list peers from")

\* description or label: None and "" fall back to the label.
CLN_create_invoice(c, amount_sats, label, description, reply) ==
    LET amount_msat == amount_sats * 1000
        params == [amount_msat |-> amount_msat, label |-> label,
                   description |-> IF Truthy(description) THEN description[1] ELSE label]
        call == CLN_make_request(c, "invoice", params, reply)
    IN  CLN_guard(c, call,
            Return(Pick(call.out.value, [payment_hash |-> "payment_hash",
                                         payment_request |-> "bolt11",
                                         expires_at |-> "expires_at"])),
            "RuntimeError", "create invoice on")

CLN_list_invoices(c, reply) ==
    LET call == CLN_make_request(c, "listinvoices", EmptyObject, reply)
    IN  CLN_guard(c, call, Return(GetOr(call.out.value, "invoices", <<>>)),
                  "ConnectionError", "list invoices from")

\* if amount_sats: None and 0 are false.
CLN_pay_invoice(c, payment_request, amount_sats, reply) ==
    LET params == IF ~IsNone(amount_sats) /\ amount_sats[1] # 0
                  THEN [bolt11 |-> payment_request, amount_msat |-> amount_sats[1] * 1000]
                  ELSE [bolt11 |-> payment_request]
        call == CLN_make_request(c, "pay", params, reply)
    IN  CLN_guard(c, call,
            Return(Pick(call.out.value, [payment_hash |-> "payment_hash",
                                         payment_preimage |-> "payment_preimage",
                                         amount_sent_msat |-> "amount_sent_msat",
                                         status |-> "status"])),
            "RuntimeError", "pay invoice on")

\* list_payments as it would be if it named the RPC after the operation.
CLN_list_payments_WrongRpc(c, reply) ==
    LET call == CLN_make_request(c, "listpayments", EmptyObject, reply)
    IN  CLN_guard(c, call, Return(GetOr(call.out.value, "pays", <<>>)),
                  "ConnectionError", "list payments from")

CLN_list_payments(c, reply) ==
    LET call == CLN_make_request(c, "listpays", EmptyObject, reply)
    IN  CLN_guard(c, call, Return(GetOr(call.out.value, "pays", <<>>)),
                  "ConnectionError", "list payments from")

\* if host and port: None, "" and 0 are false.
HostAndPort(host, port) == Truthy(host) /\ ~IsNone(port) /\ port[1] # 0

CLN_connect_peer(c, node_id, host, port, reply) ==
    LET address == IF HostAndPort(host, port)
                   THEN node_id \o "@" \o host[1] \o ":" \o ToString(port[1])
                   ELSE node_id
        call == CLN_make_request(c, "connect", [id |-> address], reply)
    IN  CLN_guard(c, call, Return(TRUE), "RuntimeError", "connect to peer on")

\* open_channel as it would be if it sent the push amount as given.
CLN_open_channel_PushInSats(c, node_id, amount_sats, push_sats, reply) ==
    LET params == IF push_sats > 0
                  THEN [id |-> node_id, amount |-> amount_sats, push_msat |-> push_sats]
                  ELSE [id |-> node_id, amount |-> amount_sats]
        call == CLN_make_request(c, "fundchannel", params, reply)
    IN  CLN_guard(c, call,
            Return(Pick(call.out.value, [funding_txid |-> "txid",
                                         funding_output |-> "outnum",
                                         channel_id |-> "channel_id"])),
            "RuntimeError", "open channel on")

CLN_open_channel(c, node_id, amount_sats, push_sats, reply) ==
    LET params == IF push_sats > 0
                  THEN [id |-> node_id, amount |-> amount_sats,
                        push_msat |-> push_sats * 1000]
                  ELSE [id |-> node_id, amount |-> amount_sats]
        call == CLN_make_request(c, "fundchannel", params, reply)
    IN  CLN_guard(c, call,
            Return(Pick(call.out.value, [funding_txid |-> "txid",
                                         funding_output |-> "outnum",
                                         channel_id |-> "channel_id"])),
            "RuntimeError", "open channel on")

CLN_close_channel(c, channel_id, force, reply) ==
    LET params == IF force THEN [id |-> channel_id, unilateraltimeout |-> 1]
                           ELSE [id |-> channel_id]
        call == CLN_make_request(c, "close", params, reply)
    IN  CLN_guard(c, call,
            Return(Pick(call.out.value, [closing_txid |-> "txid", type |-> "type"])),
            "RuntimeError", "close channel on")

CLN_decode_invoice(c, payment_request, reply) ==
    LET call == CLN_make_request(c, "decode", [string |-> payment_request], reply)
    IN  CLN_guard(c, call,
            Return(Pick(call.out.value, [payment_hash |-> "payment_hash",
                                         destination |-> "payee",
                                         amount_msat |-> "amount_msat",
                                         timestamp |-> "created_at",
                                         expiry |-> "expiry",
                                         description |-> "description"])),
            "RuntimeError", "decode invoice on")

\* riskfactor is the float 1.0, written here as the text the JSON carries.
CLN_get_route(c, destination, amount_sats, reply) ==
    LET amount_msat == amount_sats * 1000
        params == [id |-> destination, amount_msat |-> amount_msat,
                   riskfactor |-> "1.0"]
        call == CLN_make_request(c, "getroute", params, reply)
    IN  CLN_guard(c, call, Return(GetOr(call.out.value, "route", <<>>)),
                  "RuntimeError", "get route on")

---------------------------------------------------------------------------
(* lnd.py: LNDClient *)

HexDigit(n) ==
    <<"0", "1", "2", "3", "4", "5", "6", "7", "8", "9", "a", "b", "c", "d", "e", "f">>[n + 1]

\* codecs.encode(bytes, 'hex').decode(): two hex digits per byte.
RECURSIVE HexEncode(_)
HexEncode(bytes) ==
    IF Len(bytes) = 0 THEN <<>>
    ELSE <<HexDigit(bytes[1] \div 16), HexDigit(bytes[1] % 16)>> \o HexEncode(Tail(bytes))

DefaultRestPort == 8080

\* _setup_rest_client as it would be if it sent the macaroon's bytes as read.
LND_setup_rest_client_Unencoded(nc, disk) ==
    LET rest_port == IF PortConfigured(nc.rest_port) THEN nc.rest_port[1]
                                                     ELSE DefaultRestPort
        hasMac  == Truthy(nc.macaroon_path) /\ nc.macaroon_path[1] \in disk
        hasCert == Truthy(nc.cert_path) /\ nc.cert_path[1] \in disk
    IN  [base_url |-> "https://" \o nc.rpc_host \o ":" \o ToString(rest_port),
         headers  |-> IF hasMac THEN {<<"Grpc-Metadata-macaroon", MacaroonBytes>>} ELSE {},
         verify   |-> IF hasCert THEN [check |-> TRUE, ca |-> nc.cert_path]
                                 ELSE [check |-> FALSE, ca |-> None],
         reads    |-> IF hasMac THEN <<nc.macaroon_path[1]>> ELSE <<>>]

\* _setup_rest_client as it would be if it kept the library's default
\* verification when there is no certificate file.
LND_setup_rest_client_DefaultVerify(nc, disk) ==
    LET rest_port == IF PortConfigured(nc.rest_port) THEN nc.rest_port[1]
                                                     ELSE DefaultRestPort
        hasMac  == Truthy(nc.macaroon_path) /\ nc.macaroon_path[1] \in disk
        hasCert == Truthy(nc.cert_path) /\ nc.cert_path[1] \in disk
    IN  [base_url |-> "https://" \o nc.rpc_host \o ":" \o ToString(rest_port),
         headers  |-> IF hasMac
                      THEN {<<"Grpc-Metadata-macaroon", HexEncode(MacaroonBytes)>>}
                      ELSE {},
         verify   |-> IF hasCert THEN [check |-> TRUE, ca |-> nc.cert_path]
                                 ELSE DefaultVerify,
         reads    |-> IF hasMac THEN <<nc.macaroon_path[1]>> ELSE <<>>]

\* _setup_rest_client: base URL, macaroon header and verification, and the
\* files it opened.
LND_setup_rest_client(nc, disk) ==
    LET rest_port == IF PortConfigured(nc.rest_port) THEN nc.rest_port[1]
                                                     ELSE DefaultRestPort
        hasMac  == Truthy(nc.macaroon_path) /\ nc.macaroon_path[1] \in disk
        hasCert == Truthy(nc.cert_path) /\ nc.cert_path[1] \in disk
    IN  [base_url |-> "https://" \o nc.rpc_host \o ":" \o ToString(rest_port),
         headers  |-> IF hasMac
                      THEN {<<"Grpc-Metadata-macaroon", HexEncode(MacaroonBytes)>>}
                      ELSE {},
         verify   |-> IF hasCert THEN [check |-> TRUE, ca |-> nc.cert_path]
                                 ELSE [check |-> FALSE, ca |-> None],
         reads    |-> IF hasMac THEN <<nc.macaroon_path[1]>> ELSE <<>>]

\* LNDClient.__init__
LND_init(nodes, disk, node_name) ==
    IF node_name \notin DOMAIN nodes
    THEN Failed("ValueError", <<"Node '", node_name, "' not found in configuration">>)
    ELSE LET nc == nodes[node_name] IN
         IF nc.implementation # "LND"
         THEN Failed("ValueError", <<"Node '", node_name, "' is not an LND node">>)
         ELSE LET rest == LND_setup_rest_client(nc, disk)
              IN  [out |-> Return([kind |-> "LND", node_name |-> node_name,
                                   base_url |-> rest.base_url,
                                   headers |-> rest.headers, cert |-> None,
                                   verify |-> rest.verify]),
                   reads |-> rest.reads]

\* str.upper() on the method names callers pass.
Upper(method) ==
    CASE method \in {"GET", "get", "Get"} -> "GET"
      [] method \in {"POST", "post", "Post"} -> "POST"
      [] method \in {"DELETE", "delete", "Delete"} -> "DELETE"
      [] method \in {"PUT", "put"} -> "PUT"
      [] method \in {"PATCH", "patch"} -> "PATCH"
      [] OTHER -> method

\* _make_request as it would be if it sent a request again after a failure.
LND_make_request_Retry(c, method, endpoint, data, reply) ==
    LET url  == c.base_url \o endpoint
        verb == Upper(method)
        req  == Request(verb, url, IF verb = "POST" THEN Some(data) ELSE None, c)
        got  == Exchange(req, reply)
        out  == IF got.ok THEN got
                ELSE Raise("RuntimeError",
                           <<"Request error from LND node '", c.node_name, "': ">> \o got.msg)
    IN  Done(out, IF got.ok THEN <<Call(req, reply, out)>>
                            ELSE <<Call(req, reply, out), Call(req, reply, out)>>)

\* _make_request as it would be if a method it does not know were sent as is.
LND_make_request_AnyMethod(c, method, endpoint, data, reply) ==
    LET url  == c.base_url \o endpoint
        verb == Upper(method)
        req  == Request(verb, url, IF verb = "POST" THEN Some(data) ELSE None, c)
        got  == Exchange(req, reply)
        out  == IF got.ok THEN got
                ELSE IF Catches("requests.ConnectionError", got.cls)
                THEN Raise("ConnectionError",
                           <<"Failed to connect to LND node '", c.node_name, "' at ", url, ": ">>
                               \o got.msg)
                ELSE Raise("RuntimeError",
                           <<"Request error from LND node '", c.node_name, "': ">> \o got.msg)
    IN  Done(out, <<Call(req, reply, out)>>)

\* _make_request: dispatch on the method, then the same three library calls.
\* data is the JSON body of a POST; GET and DELETE send none.
LND_make_request(c, method, endpoint, data, reply) ==
    LET url == c.base_url \o endpoint
        verb == Upper(method)
    IN  IF verb \notin {"GET", "POST", "DELETE"}
        THEN Done(Raise("ValueError", <<"Unsupported HTTP method: ", method>>), <<>>)
        ELSE
        LET req == Request(verb, url, IF verb = "POST" THEN Some(data) ELSE None, c)
            got == Exchange(req, reply)
            out == IF got.ok THEN got
                   ELSE IF Catches("requests.ConnectionError", got.cls)
                   THEN Raise("ConnectionError",
                              <<"Failed to connect to LND node '", c.node_name, "' at ", url, ": ">>
                                  \o got.msg)
                   ELSE IF Catches("requests.HTTPError", got.cls)
                   THEN Raise("RuntimeError",
                              <<"HTTP error from LND node '", c.node_name, "': ">> \o got.msg)
                   ELSE IF Catches("requests.RequestException", got.cls)
                   THEN Raise("RuntimeError",
                              <<"Request error from LND node '", c.node_name, "': ">> \o got.msg)
                   ELSE IF Catches("json.JSONDecodeError", got.cls)
                   THEN Raise("RuntimeError",
                              <<"Invalid JSON response from LND node '", c.node_name, "': ">>
                                  \o got.msg)
                   ELSE got
        IN  Done(out, <<Call(req, reply, out)>>)

\* try: <body> except Exception as e: raise cls(f"Failed to {what} LND node
\* '{node_name}': {e}"), for a body whose outcome is out.
LND_guard(c, out, calls, cls, what) ==
    Done(Reraise(out, cls, <<"Failed to ", what, " LND node '", c.node_name, "': ">>),
         calls)

\* A body of one request followed by post-processing.
LND_one(c, made, post, cls, what) ==
    LND_guard(c, IF made.out.ok THEN post ELSE made.out, made.http, cls, what)

\* int(): a digit string parses, the integer 0 of a default stays, and an
\* empty string raises ValueError.
PyInt(v) ==
    IF v = <<>> THEN Raise("ValueError", <<"invalid literal for int() with base 10: ''">>)
    ELSE Return(IntOf(v))

\* int(obj.get(key, 0))
IntField(obj, key) == PyInt(GetOr(obj, key, <<0>>))

LND_get_info(c, reply) ==
    LET made == LND_make_request(c, "GET", "/v1/getinfo", EmptyObject, reply)
        response == made.out.value
    IN  LND_one(c, made,
            Return([identity_pubkey |-> Get(response, "identity_pubkey"),
                    alias |-> Get(response, "alias"),
                    color |-> Get(response, "color"),
                    num_peers |-> GetOr(response, "num_peers", 0),
                    num_pending_channels |-> GetOr(response, "num_pending_channels", 0),
                    num_active_channels |-> GetOr(response, "num_active_channels", 0),
                    num_inactive_channels |-> GetOr(response, "num_inactive_channels", 0),
                    block_height |-> Get(response, "block_height"),
                    synced_to_chain |-> Get(response, "synced_to_chain"),
                    synced_to_graph |-> Get(response, "synced_to_graph"),
                    version |-> Get(response, "version")]),
            "ConnectionError", "get info from")

\* get_balance as it would be if it read the wallet's total balance.
LND_get_balance_Total(c, reply1, reply2) ==
    LET first  == LND_make_request(c, "GET", "/v1/balance/blockchain", EmptyObject, reply1)
        wallet_balance == IntField(first.out.value, "total_balance")
        second == LND_make_request(c, "GET", "/v1/balance/channels", EmptyObject, reply2)
        channel_balance == IntField(second.out.value, "balance")
    IN  IF ~first.out.ok
        THEN LND_guard(c, first.out, first.http, "ConnectionError", "get balance from")
        ELSE IF ~wallet_balance.ok
        THEN LND_guard(c, wallet_balance, first.http, "ConnectionError", "get balance from")
        ELSE IF ~second.out.ok
        THEN LND_guard(c, second.out, first.http \o second.http,
                       "ConnectionError", "get balance from")
        ELSE IF ~channel_balance.ok
        THEN LND_guard(c, channel_balance, first.http \o second.http,
                       "ConnectionError", "get balance from")
        ELSE LND_guard(c, Return(wallet_balance.value + channel_balance.value),
                       first.http \o second.http, "ConnectionError", "get balance from")

\* get_balance as it would be if a failure of the channel request were
\* swallowed and the wallet balance returned alone.
LND_get_balance_PartialSum(c, reply1, reply2) ==
    LET first  == LND_make_request(c, "GET", "/v1/balance/blockchain", EmptyObject, reply1)
        wallet_balance == IntField(first.out.value, "confirmed_balance")
        second == LND_make_request(c, "GET", "/v1/balance/channels", EmptyObject, reply2)
        channel_balance == IntField(second.out.value, "balance")
    IN  IF ~first.out.ok
        THEN LND_guard(c, first.out, first.http, "ConnectionError", "get balance from")
        ELSE IF ~wallet_balance.ok
        THEN LND_guard(c, wallet_balance, first.http, "ConnectionError", "get balance from")
        ELSE IF ~second.out.ok \/ ~channel_balance.ok
        THEN LND_guard(c, Return(wallet_balance.value), first.http \o second.http,
                       "ConnectionError", "get balance from")
        ELSE LND_guard(c, Return(wallet_balance.value + channel_balance.value),
                       first.http \o second.http, "ConnectionError", "get balance from")

\* get_balance: the wallet request, then the channel request; the first
\* failure ends the body.
LND_get_balance(c, reply1, reply2) ==
    LET first  == LND_make_request(c, "GET", "/v1/balance/blockchain", EmptyObject, reply1)
        wallet_balance == IntField(first.out.value, "confirmed_balance")
        second == LND_make_request(c, "GET", "/v1/balance/channels", EmptyObject, reply2)
        channel_balance == IntField(second.out.value, "balance")
    IN  IF ~first.out.ok
        THEN LND_guard(c, first.out, first.http, "ConnectionError", "get balance from")
        ELSE IF ~wallet_balance.ok
        THEN LND_guard(c, wallet_balance, first.http, "ConnectionError", "get balance from")
        ELSE IF ~second.out.ok
        THEN LND_guard(c, second.out, first.http \o second.http,
                       "ConnectionError", "get balance from")
        ELSE IF ~channel_balance.ok
        THEN LND_guard(c, channel_balance, first.http \o second.http,
                       "ConnectionError", "get balance from")
        ELSE LND_guard(c, Return(wallet_balance.value + channel_balance.value),
                       first.http \o second.http, "ConnectionError", "get balance from")

LND_list_channels(c, reply) ==
    LET made == LND_make_request(c, "GET", "/v1/channels", EmptyObject, reply)
    IN  LND_one(c, made, Return(GetOr(made.out.value, "channels", <<>>)),
                "ConnectionError", "list channels from")

LND_list_peers(c, reply) ==
    LET made == LND_make_request(c, "GET", "/v1/peers", EmptyObject, reply)
    IN  LND_one(c, made, Return(GetOr(made.out.value, "peers", <<>>)),
                "ConnectionError", "list peers from")

\* JSON scalars of an LND request body, tagged by their JSON type.
JStr(text) == [str |-> text]

JNum(n) == [num |-> n]

\* memo or f'Invoice for {amount_sats} sats'
LND_create_invoice(c, amount_sats, memo, expiry, reply) ==
    LET data == [value |-> JStr(ToString(amount_sats)),
                 memo |-> JStr(IF Truthy(memo) THEN memo[1]
                               ELSE "Invoice for " \o ToString(amount_sats) \o " sats"),
                 expiry |-> JStr(ToString(expiry))]
        made == LND_make_request(c, "POST", "/v1/invoices", data, reply)
    IN  LND_one(c, made,
            Return(Pick(made.out.value, [payment_hash |-> "r_hash",
                                         payment_request |-> "payment_request",
                                         add_index |-> "add_index"])),
            "RuntimeError", "create invoice on")

LND_pay_invoice(c, payment_request, amount_sats, reply) ==
    LET data == IF ~IsNone(amount_sats) /\ amount_sats[1] # 0
                THEN [payment_request |-> JStr(payment_request), amt |-> JNum(amount_sats[1])]
                ELSE [payment_request |-> JStr(payment_request)]
        made == LND_make_request(c, "POST", "/v1/channels/transactions", data, reply)
    IN  LND_one(c, made,
            Return(Pick(made.out.value, [payment_hash |-> "payment_hash",
                                         payment_preimage |-> "payment_preimage",
                                         payment_route |-> "payment_route"])),
            "RuntimeError", "pay invoice on")

\* str.split(sep) on a text held as a sequence of tokens, sep being one token.
RECURSIVE Split(_, _)
Split(text, sep) ==
    IF \A i \in 1..Len(text) : text[i] # sep THEN <<text>>
    ELSE LET i == CHOOSE k \in 1..Len(text) :
                      text[k] = sep /\ \A j \in 1..(k - 1) : text[j] # sep
         IN  <<SubSeq(text, 1, i - 1)>> \o Split(SubSeq(text, i + 1, Len(text)), sep)

\* The string a sequence of tokens spells.
RECURSIVE Join(_)
Join(text) == IF Len(text) = 0 THEN "" ELSE text[1] \o Join(Tail(text))

\* connect_peer: node_id is a sequence of tokens in which "@" stands alone.
LND_connect_peer(c, node_id, host, port, reply) ==
    LET given   == HostAndPort(host, port)
        address == IF given THEN node_id \o <<"@", host[1], ":", ToString(port[1])>>
                            ELSE node_id
        pubkey  == IF "@" \in Range(node_id) THEN Split(node_id, "@")[1] ELSE node_id
        peer    == IF "@" \in Range(address) THEN Split(address, "@")[2]
                   ELSE IF given THEN <<host[1], ":", ToString(port[1])>>
                   ELSE <<>>
        data == [addr |-> [pubkey |-> JStr(Join(pubkey)), host |-> JStr(Join(peer))]]
        made == LND_make_request(c, "POST", "/v1/peers", data, reply)
    IN  LND_one(c, made, Return(TRUE), "RuntimeError", "connect to peer on")

LND_open_channel(c, node_id, amount_sats, push_sats, reply) ==
    LET data == [node_pubkey_string |-> JStr(node_id),
                 local_funding_amount |-> JStr(ToString(amount_sats)),
                 push_sat |-> JStr(IF push_sats > 0 THEN ToString(push_sats) ELSE "0")]
        made == LND_make_request(c, "POST", "/v1/channels", data, reply)
    IN  LND_one(c, made,
            Return(Pick(made.out.value, [funding_txid |-> "funding_txid",
                                         output_index |-> "output_index"])),
            "RuntimeError", "open channel on")

\* close_channel: channel_point is a sequence of tokens in which ":" stands
\* alone; unpacking a split into other than two parts raises ValueError
\* before any request is made.
LND_close_channel(c, channel_point, force, reply) ==
    LET parts == Split(channel_point, ":")
        endpoint == "/v1/channels/" \o Join(parts[1]) \o "/" \o Join(parts[2])
                        \o (IF force THEN "?force=true" ELSE "")
        made == LND_make_request(c, "DELETE", endpoint, EmptyObject, reply)
    IN  IF Len(parts) # 2
        THEN LND_guard(c, Raise("ValueError",
                                IF Len(parts) < 2
                                THEN <<"not enough values to unpack (expected 2, got 1)">>
                                ELSE <<"too many values to unpack (expected 2)">>),
                       <<>>, "RuntimeError", "close channel on")
        ELSE LND_one(c, made,
                 Return(Pick(made.out.value, [closing_txid |-> "closing_txid"])),
                 "RuntimeError", "close channel on")

\* The first failure among int() conversions, else the record of values.
IntFields(obj, keys) ==
    IF \E k \in keys : ~IntField(obj, k).ok
    THEN IntField(obj, CHOOSE k \in keys : ~IntField(obj, k).ok)
    ELSE Return([k \in keys |-> IntField(obj, k).value])

LND_decode_invoice(c, payment_request, reply) ==
    LET made == LND_make_request(c, "GET", "/v1/payreq/" \o payment_request, EmptyObject, reply)
        response == made.out.value
        ints == IntFields(response, {"num_satoshis", "timestamp", "expiry"})
    IN  LND_one(c, made,
            IF ~ints.ok THEN ints
            ELSE Return([payment_hash |-> Get(response, "payment_hash"),
                         destination |-> Get(response, "destination"),
                         num_satoshis |-> ints.value.num_satoshis,
                         timestamp |-> ints.value.timestamp,
                         expiry |-> ints.value.expiry,
                         description |-> Get(response, "description")]),
            "RuntimeError", "decode invoice on")

LND_get_route(c, destination, amount_sats, reply) ==
    LET data == [pub_key |-> JStr(destination), amt |-> JNum(amount_sats)]
        made == LND_make_request(c, "POST", "/v1/graph/routes", data, reply)
    IN  LND_one(c, made, Return(GetOr(made.out.value, "routes", <<>>)),
                "RuntimeError", "get route on")

LND_get_wallet_balance(c, reply) ==
    LET made == LND_make_request(c, "GET", "/v1/balance/blockchain", EmptyObject, reply)
    IN  LND_one(c, made,
            IntFields(made.out.value,
                      {"confirmed_balance", "unconfirmed_balance", "total_balance"}),
            "RuntimeError", "get wallet balance from")

LND_get_channel_balance(c, reply) ==
    LET made == LND_make_request(c, "GET", "/v1/balance/channels", EmptyObject, reply)
    IN  LND_one(c, made,
            IntFields(made.out.value, {"balance", "pending_open_balance"}),
            "RuntimeError", "get channel balance from")

\* list_invoices as it would be if it raised the error kind list_channels and
\* list_peers raise.
LND_list_invoices_ConnectivityKind(c, pending_only, reply) ==
    LET endpoint == "/v1/invoices" \o (IF pending_only THEN "?pending_only=true" ELSE "")
        made == LND_make_request(c, "GET", endpoint, EmptyObject, reply)
    IN  LND_one(c, made, Return(GetOr(made.out.value, "invoices", <<>>)),
                "ConnectionError", "list invoices from")

LND_list_invoices(c, pending_only, reply) ==
    LET endpoint == "/v1/invoices" \o (IF pending_only THEN "?pending_only=true" ELSE "")
        made == LND_make_request(c, "GET", endpoint, EmptyObject, reply)
    IN  LND_one(c, made, Return(GetOr(made.out.value, "invoices", <<>>)),
                "RuntimeError", "list invoices from")

LND_list_payments(c, reply) ==
    LET made == LND_make_request(c, "GET", "/v1/payments", EmptyObject, reply)
    IN  LND_one(c, made, Return(GetOr(made.out.value, "payments", <<>>)),
                "RuntimeError", "list payments from")

---------------------------------------------------------------------------
(* The backend's replies and the callers' arguments the model explores *)

MaxOutputs == 2

MaxChannels == 2

\* Amounts in millisatoshi: below, just below, at and above one satoshi.
AmountsMsat == {1, 999, 1500}

\* An output of listfunds; one output lacks its amount.
FundOutputs ==
    {[amount_msat |-> a, status |-> st] : a \in AmountsMsat, st \in {"confirmed", "unconfirmed"}}
        \cup {[status |-> "confirmed"]}

FundChannels == {[our_amount_msat |-> a] : a \in AmountsMsat}

ListFundsBodies ==
    {[outputs |-> os, channels |-> cs] :
        os \in SeqsUpTo(FundOutputs, MaxOutputs), cs \in SeqsUpTo(FundChannels, MaxChannels)}
        \cup {EmptyObject, [channels |-> <<[our_amount_msat |-> 1500]>>]}

CLNInfoBody ==
    [id |-> "02ab", alias |-> "bob", color |-> "02ab11", num_peers |-> 2,
     num_pending_channels |-> 0, num_active_channels |-> 1,
     num_inactive_channels |-> 0, blockheight |-> 120, network |-> "regtest",
     version |-> "v24.02"]

LNDInfoBody ==
    [identity_pubkey |-> "03cd", alias |-> "alice", color |-> "#3399ff",
     num_peers |-> 2, num_pending_channels |-> 0, num_active_channels |-> 1,
     num_inactive_channels |-> 0, block_height |-> 120, synced_to_chain |-> TRUE,
     synced_to_graph |-> TRUE, version |-> "0.17.0-beta"]

\* The peer and channel counts of a getinfo reply.
InfoCounts ==
    {"num_peers", "num_pending_channels", "num_active_channels", "num_inactive_channels"}

\* A getinfo reply with every field, one without the counts, and an empty one.
InfoBodies(kind) ==
    LET full == IF kind = "CLN" THEN CLNInfoBody ELSE LNDInfoBody
    IN  {EmptyObject, full, [k \in DOMAIN full \ InfoCounts |-> full[k]]}

\* A listing reply holds its items under key, or lacks the key.
ListBodies(key) == {EmptyObject, [k \in {key} |-> <<"item-1", "item-2">>]}

\* The reply to a write: every field the operation reads, or none.
ResultBodies ==
    {EmptyObject,
     [payment_hash |-> "9f", bolt11 |-> "lnbc1", expires_at |-> 1700000000,
      payment_preimage |-> "5e", amount_sent_msat |-> 5000, status |-> "complete",
      txid |-> "tx9", outnum |-> 0, channel_id |-> "chan-1", type |-> "mutual",
      payee |-> "02ab", amount_msat |-> 5000, created_at |-> 1700000000,
      expiry |-> 3600, description |-> "coffee", route |-> <<"hop-1">>,
      r_hash |-> "9f", payment_request |-> "lnbc1", add_index |-> "7",
      payment_route |-> "route-1", funding_txid |-> "tx9", output_index |-> 0,
      closing_txid |-> "tx10", routes |-> <<"route-1">>]}

\* LND sends an int64 as a decimal string.
DecodeBodies ==
    {EmptyObject,
     [payment_hash |-> "9f", destination |-> "02ab", num_satoshis |-> <<2, 5, 0>>,
      timestamp |-> <<1, 7>>, expiry |-> <<3, 6, 0, 0>>, description |-> "coffee"],
     [payment_hash |-> "9f", destination |-> "02ab", num_satoshis |-> <<>>,
      timestamp |-> <<1, 7>>, expiry |-> <<3, 6, 0, 0>>, description |-> "coffee"]}

WalletBodies ==
    {[confirmed_balance |-> cb, unconfirmed_balance |-> ub, total_balance |-> tb] :
        cb \in {<<5, 0, 0>>, <<7>>, <<>>}, ub \in {<<0>>, <<1, 0, 0>>}, tb \in {<<6, 0, 0>>, <<7>>}}
        \cup {EmptyObject}

ChannelBalanceBodies ==
    {[balance |-> b, pending_open_balance |-> pb] :
        b \in {<<3, 0, 0>>, <<0>>}, pb \in {<<0>>, <<5, 0>>}}
        \cup {EmptyObject}

\* Every reply to a request whose successful bodies are bodies.
Replies(bodies) == BadReplies \cup {JsonReply(b) : b \in bodies}

SatAmounts == {0, 1, 250}

OverrideAmounts == {None, Some(0), Some(5)}

PushAmounts == {0, 7}

Labels == {"inv-1"}

Texts == {None, Some(""), Some("coffee")}

Expiries == {3600}

PaymentRequests == {"lnbc1"}

PeerIds == {"02ab"}

PeerIdTokens == {<<"02ab">>, <<"02ab", "@", "10.0.0.9:9735">>}

Hosts == {None, Some(""), Some("10.0.0.2")}

Ports == {None, Some(0), Some(9735)}

ChannelIds == {"chan-1"}

ChannelPoints == {<<"tx9">>, <<"tx9", ":", "0">>, <<"tx9", ":", "0", ":", "1">>}

\* Method names for a direct call of LNDClient._make_request.
Methods == {"GET", "get", "Post", "DELETE", "delete", "PUT", "patch", "HEAD"}

Endpoints == {"/v1/getinfo"}

---------------------------------------------------------------------------
(* The session: load the configuration, construct clients, call them *)

\* The caller holds no outcome: before its first call, and after it has
\* displayed the outcome of the previous one.
Idle == [on |-> "", op |-> "idle", args |-> <<>>, out |-> Return(TRUE)]

Init ==
    /\ environ \in Envs
    /\ \E polar \in PolarOutcomes : config = load_config(environ, polar)
    /\ fs \in Disks(config)
    /\ client = NoClient
    /\ last = Idle
    /\ http = <<>>
    /\ reads = <<>>
    /\ raised = FALSE
    /\ pc = "interactive"
    /\ console = <<>>
    /\ lnd_result = None
    /\ cln_result = None
    /\ exit_status = None

\* client = Class(config, node_name): the variable is bound only when the
\* constructor returns.
Constructed(kind, node_name, made) ==
    /\ last.op = "idle"
    /\ last' = [on |-> kind, op |-> "__init__", args |-> [node_name |-> node_name],
                out |-> made.out]
    /\ client' = IF made.out.ok THEN made.out.value ELSE client
    /\ http' = <<>>
    /\ reads' = made.reads
    /\ raised' = IF made.out.ok THEN FALSE ELSE raised
    /\ UNCHANGED <<environ, config, fs, script>>

NewCoreLightningClient ==
    \E node_name \in NodeNames :
        Constructed("CLN", node_name, CLN_init(config, fs, node_name))

NewLNDClient ==
    \E node_name \in NodeNames :
        Constructed("LND", node_name, LND_init(config, fs, node_name))

\* A call as it would be if an operation that fails dropped the client's
\* authentication headers.
Called_ForgetsHeaders(op, args, done) ==
    /\ last.op = "idle"
    /\ last' = [on |-> client.kind, op |-> op, args |-> args, out |-> done.out]
    /\ http' = done.http
    /\ reads' = <<>>
    /\ client' = IF done.out.ok THEN client ELSE [client EXCEPT !.headers = {}]
    /\ raised' = (raised \/ ~done.out.ok)
    /\ UNCHANGED <<environ, config, fs, script>>

\* A call as it would be if a call that raised left the client unusable, so
\* that every later call on the same object raises.
Called_PoisonedByFailure(op, args, done) ==
    /\ last.op = "idle"
    /\ last' = [on |-> client.kind, op |-> op, args |-> args,
                out |-> IF raised THEN Raise("RuntimeError", <<"Session is closed">>)
                        ELSE done.out]
    /\ http' = done.http
    /\ reads' = <<>>
    /\ raised' = (raised \/ ~done.out.ok)
    /\ UNCHANGED <<environ, config, fs, client, script>>

\* A call of an operation on the client: its outcome and its requests.
Called(op, args, done) ==
    /\ last.op = "idle"
    /\ last' = [on |-> client.kind, op |-> op, args |-> args, out |-> done.out]
    /\ http' = done.http
    /\ reads' = <<>>
    /\ raised' = (raised \/ ~done.out.ok)
    /\ UNCHANGED <<environ, config, fs, client, script>>

CLNGetInfo ==
    /\ client.kind = "CLN"
    /\ \E reply \in Replies(InfoBodies("CLN")) :
           Called("get_info", <<>>, CLN_get_info(client, reply))

CLNGetBalance ==
    /\ client.kind = "CLN"
    /\ \E reply \in Replies(ListFundsBodies) :
           Called("get_balance", <<>>, CLN_get_balance(client, reply))

CLNListChannels ==
    /\ client.kind = "CLN"
    /\ \E reply \in Replies(ListBodies("channels")) :
           Called("list_channels", <<>>, CLN_list_channels(client, reply))

CLNListPeers ==
    /\ client.kind = "CLN"
    /\ \E reply \in Replies(ListBodies("peers")) :
           Called("list_peers", <<>>, CLN_list_peers(client, reply))

CLNCreateInvoice ==
    /\ client.kind = "CLN"
    /\ \E amount_sats \in SatAmounts, label \in Labels, description \in Texts,
          reply \in Replies(ResultBodies) :
           Called("create_invoice",
                  [amount_sats |-> amount_sats, label |-> label, description |-> description],
                  CLN_create_invoice(client, amount_sats, label, description, reply))

CLNListInvoices ==
    /\ client.kind = "CLN"
    /\ \E reply \in Replies(ListBodies("invoices")) :
           Called("list_invoices", <<>>, CLN_list_invoices(client, reply))

CLNPayInvoice ==
    /\ client.kind = "CLN"
    /\ \E payment_request \in PaymentRequests, amount_sats \in OverrideAmounts,
          reply \in Replies(ResultBodies) :
           Called("pay_invoice",
                  [payment_request |-> payment_request, amount_sats |-> amount_sats],
                  CLN_pay_invoice(client, payment_request, amount_sats, reply))

CLNListPayments ==
    /\ client.kind = "CLN"
    /\ \E reply \in Replies(ListBodies("pays")) :
           Called("list_payments", <<>>, CLN_list_payments(client, reply))

CLNConnectPeer ==
    /\ client.kind = "CLN"
    /\ \E node_id \in PeerIds, host \in Hosts, port \in Ports,
          reply \in Replies(ResultBodies) :
           Called("connect_peer", [node_id |-> node_id, host |-> host, port |-> port],
                  CLN_connect_peer(client, node_id, host, port, reply))

CLNOpenChannel ==
    /\ client.kind = "CLN"
    /\ \E node_id \in PeerIds, amount_sats \in SatAmounts, push_sats \in PushAmounts,
          reply \in Replies(ResultBodies) :
           Called("open_channel",
                  [node_id |-> node_id, amount_sats |-> amount_sats, push_sats |-> push_sats],
                  CLN_open_channel(client, node_id, amount_sats, push_sats, reply))

CLNCloseChannel ==
    /\ client.kind = "CLN"
    /\ \E channel_id \in ChannelIds, force \in BOOLEAN, reply \in Replies(ResultBodies) :
           Called("close_channel", [channel_id |-> channel_id, force |-> force],
                  CLN_close_channel(client, channel_id, force, reply))

CLNDecodeInvoice ==
    /\ client.kind = "CLN"
    /\ \E payment_request \in PaymentRequests, reply \in Replies(ResultBodies) :
           Called("decode_invoice", [payment_request |-> payment_request],
                  CLN_decode_invoice(client, payment_request, reply))

CLNGetRoute ==
    /\ client.kind = "CLN"
    /\ \E destination \in PeerIds, amount_sats \in SatAmounts,
          reply \in Replies(ResultBodies) :
           Called("get_route", [destination |-> destination, amount_sats |-> amount_sats],
                  CLN_get_route(client, destination, amount_sats, reply))

LNDGetInfo ==
    /\ client.kind = "LND"
    /\ \E reply \in Replies(InfoBodies("LND")) :
           Called("get_info", <<>>, LND_get_info(client, reply))

LNDGetBalance ==
    /\ client.kind = "LND"
    /\ \E reply1 \in Replies(WalletBodies), reply2 \in Replies(ChannelBalanceBodies) :
           Called("get_balance", <<>>, LND_get_balance(client, reply1, reply2))

LNDListChannels ==
    /\ client.kind = "LND"
    /\ \E reply \in Replies(ListBodies("channels")) :
           Called("list_channels", <<>>, LND_list_channels(client, reply))

LNDListPeers ==
    /\ client.kind = "LND"
    /\ \E reply \in Replies(ListBodies("peers")) :
           Called("list_peers", <<>>, LND_list_peers(client, reply))

LNDCreateInvoice ==
    /\ client.kind = "LND"
    /\ \E amount_sats \in SatAmounts, memo \in Texts, expiry \in Expiries,
          reply \in Replies(ResultBodies) :
           Called("create_invoice",
                  [amount_sats |-> amount_sats, memo |-> memo, expiry |-> expiry],
                  LND_create_invoice(client, amount_sats, memo, expiry, reply))

LNDPayInvoice ==
    /\ client.kind = "LND"
    /\ \E payment_request \in PaymentRequests, amount_sats \in OverrideAmounts,
          reply \in Replies(ResultBodies) :
           Called("pay_invoice",
                  [payment_request |-> payment_request, amount_sats |-> amount_sats],
                  LND_pay_invoice(client, payment_request, amount_sats, reply))

LNDConnectPeer ==
    /\ client.kind = "LND"
    /\ \E node_id \in PeerIdTokens, host \in Hosts, port \in Ports,
          reply \in Replies(ResultBodies) :
           Called("connect_peer", [node_id |-> node_id, host |-> host, port |-> port],
                  LND_connect_peer(client, node_id, host, port, reply))

LNDOpenChannel ==
    /\ client.kind = "LND"
    /\ \E node_id \in PeerIds, amount_sats \in SatAmounts, push_sats \in PushAmounts,
          reply \in Replies(ResultBodies) :
           Called("open_channel",
                  [node_id |-> node_id, amount_sats |-> amount_sats, push_sats |-> push_sats],
                  LND_open_channel(client, node_id, amount_sats, push_sats, reply))

LNDCloseChannel ==
    /\ client.kind = "LND"
    /\ \E channel_point \in ChannelPoints, force \in BOOLEAN,
          reply \in Replies(ResultBodies) :
           Called("close_channel", [channel_point |-> channel_point, force |-> force],
                  LND_close_channel(client, channel_point, force, reply))

LNDDecodeInvoice ==
    /\ client.kind = "LND"
    /\ \E payment_request \in PaymentRequests, reply \in Replies(DecodeBodies) :
           Called("decode_invoice", [payment_request |-> payment_request],
                  LND_decode_invoice(client, payment_request, reply))

LNDGetRoute ==
    /\ client.kind = "LND"
    /\ \E destination \in PeerIds, amount_sats \in SatAmounts,
          reply \in Replies(ResultBodies) :
           Called("get_route", [destination |-> destination, amount_sats |-> amount_sats],
                  LND_get_route(client, destination, amount_sats, reply))

LNDGetWalletBalance ==
    /\ client.kind = "LND"
    /\ \E reply \in Replies(WalletBodies) :
           Called("get_wallet_balance", <<>>, LND_get_wallet_balance(client, reply))

LNDGetChannelBalance ==
    /\ client.kind = "LND"
    /\ \E reply \in Replies(ChannelBalanceBodies) :
           Called("get_channel_balance", <<>>, LND_get_channel_balance(client, reply))

LNDListInvoices ==
    /\ client.kind = "LND"
    /\ \E pending_only \in BOOLEAN, reply \in Replies(ListBodies("invoices")) :
           Called("list_invoices", [pending_only |-> pending_only],
                  LND_list_invoices(client, pending_only, reply))

LNDListPayments ==
    /\ client.kind = "LND"
    /\ \E reply \in Replies(ListBodies("payments")) :
           Called("list_payments", <<>>, LND_list_payments(client, reply))

\* client._make_request(method, endpoint, data), called directly.
LNDMakeRequest ==
    /\ client.kind = "LND"
    /\ \E method \in Methods, endpoint \in Endpoints, reply \in Replies({EmptyObject}) :
           Called("_make_request", [method |-> method, endpoint |-> endpoint],
                  LND_make_request(client, method, endpoint, EmptyObject, reply))

\* Between two calls the credential files are removed from the disk, or put
\* there: the clients look at the disk only when they are constructed.
FilesChange ==
    /\ last.op = "idle"
    /\ fs' \in Disks(config) \ {fs}
    /\ UNCHANGED <<environ, config, client, last, http, reads, raised, script>>

\* The caller prints the result, or the error it caught, and goes on to its
\* next call.
Display ==
    /\ last.op # "idle"
    /\ last' = Idle
    /\ http' = <<>>
    /\ reads' = <<>>
    /\ UNCHANGED <<environ, config, fs, client, raised, script>>

Next ==
    \/ NewCoreLightningClient
    \/ NewLNDClient
    \/ CLNGetInfo
    \/ CLNGetBalance
    \/ CLNListChannels
    \/ CLNListPeers
    \/ CLNCreateInvoice
    \/ CLNListInvoices
    \/ CLNPayInvoice
    \/ CLNListPayments
    \/ CLNConnectPeer
    \/ CLNOpenChannel
    \/ CLNCloseChannel
    \/ CLNDecodeInvoice
    \/ CLNGetRoute
    \/ LNDGetInfo
    \/ LNDGetBalance
    \/ LNDListChannels
    \/ LNDListPeers
    \/ LNDCreateInvoice
    \/ LNDPayInvoice
    \/ LNDConnectPeer
    \/ LNDOpenChannel
    \/ LNDCloseChannel
    \/ LNDDecodeInvoice
    \/ LNDGetRoute
    \/ LNDGetWalletBalance
    \/ LNDGetChannelBalance
    \/ LNDListInvoices
    \/ LNDListPayments
    \/ LNDMakeRequest
    \/ FilesChange
    \/ Display

Spec == Init /\ [][Next]_vars

----------------------------------------------------------------------------
(* test_both_apis.py: the script that tests both clients *)

\* What the script prints: the banner of a test function, the line of a step
\* that passed, the error a test function caught, a line of the summary.
Banner(section) == [section |-> section, kind |-> "banner", text |-> <<>>]

Passed(section, op) == [section |-> section, kind |-> "passed", text |-> <<op>>]

TestFailed(section, e) == [section |-> section, kind |-> "failed", text |-> e]

Summary(section, result) ==
    [section |-> section, kind |-> "summary",
     text |-> <<IF result = Some(TRUE) THEN "PASS" ELSE "FAIL">>]

\* The script starts: load_config() reads the same environment and the same
\* Polar network each time the script calls it.
ScriptInit ==
    /\ environ \in Envs
    /\ \E polar \in PolarOutcomes : config = load_config(environ, polar)
    /\ fs \in Disks(config)
    /\ client = NoClient
    /\ last = Idle
    /\ http = <<>>
    /\ reads = <<>>
    /\ raised = FALSE
    /\ pc = "main"
    /\ console = <<>>
    /\ lnd_result = None
    /\ cln_result = None
    /\ exit_status = None

\* main() calls test_lnd(), then test_cln(), then prints the summary.
AfterTest(section) == IF section = "LND" THEN "test_cln" ELSE "summary"

\* return True / return False of a test function.
TestReturns(section, result) ==
    /\ lnd_result' = IF section = "LND" THEN Some(result) ELSE lnd_result
    /\ cln_result' = IF section = "CLN" THEN Some(result) ELSE cln_result
    /\ pc' = AfterTest(section)

\* A test function as it would be without its try block: the error of a step
\* ends the script with status 1.
TestStep_Uncaught(section, op, out, next, printed) ==
    IF out.ok
    THEN /\ console' = printed \o <<Passed(section, op)>>
         /\ IF next = "return" THEN TestReturns(section, TRUE)
            ELSE pc' = next /\ UNCHANGED <<lnd_result, cln_result>>
         /\ UNCHANGED exit_status
    ELSE /\ console' = printed \o <<TestFailed(section, out.msg)>>
         /\ pc' = "exited"
         /\ exit_status' = Some(1)
         /\ UNCHANGED <<lnd_result, cln_result>>

\* One statement of the try block of a test function and the print that
\* follows it: when it raises, the except clause prints the error and the
\* function returns False; after the last one the function returns True.
TestStep(section, op, out, next, printed) ==
    IF out.ok
    THEN /\ console' = printed \o <<Passed(section, op)>>
         /\ IF next = "return" THEN TestReturns(section, TRUE)
            ELSE pc' = next /\ UNCHANGED <<lnd_result, cln_result>>
         /\ UNCHANGED exit_status
    ELSE /\ console' = printed \o <<TestFailed(section, out.msg)>>
         /\ TestReturns(section, FALSE)
         /\ UNCHANGED exit_status

\* A test function prints its banner, loads the configuration and constructs
\* its client.
TestConstructs(section, node_name, made, next) ==
    /\ last' = [on |-> section, op |-> "__init__", args |-> [node_name |-> node_name],
                out |-> made.out]
    /\ client' = IF made.out.ok THEN made.out.value ELSE client
    /\ http' = <<>>
    /\ reads' = made.reads
    /\ TestStep(section, "__init__", made.out, next, console \o <<Banner(section)>>)
    /\ UNCHANGED <<environ, config, fs, raised>>

\* A test function calls an operation of its client and prints the result.
TestCalls(section, op, done, next) ==
    /\ last' = [on |-> section, op |-> op, args |-> <<>>, out |-> done.out]
    /\ http' = done.http
    /\ reads' = <<>>
    /\ TestStep(section, op, done.out, next, console)
    /\ UNCHANGED <<environ, config, fs, client, raised>>

\* main() prints the configuration summary.
MainShowsConfiguration ==
    /\ pc = "main"
    /\ pc' = "test_lnd"
    /\ console' = console \o <<[section |-> "main", kind |-> "table", text |-> <<>>]>>
    /\ UNCHANGED <<environ, config, fs, client, last, http, reads, raised,
                   lnd_result, cln_result, exit_status>>

TestLndClient ==
    /\ pc = "test_lnd"
    /\ TestConstructs("LND", "alice", LND_init(config, fs, "alice"), "lnd_get_info")

TestLndGetInfo ==
    /\ pc = "lnd_get_info"
    /\ \E reply \in Replies(InfoBodies("LND")) :
           TestCalls("LND", "get_info", LND_get_info(client, reply),
                     "lnd_get_wallet_balance")

TestLndGetWalletBalance ==
    /\ pc = "lnd_get_wallet_balance"
    /\ \E reply \in Replies(WalletBodies) :
           TestCalls("LND", "get_wallet_balance", LND_get_wallet_balance(client, reply),
                     "lnd_list_peers")

TestLndListPeers ==
    /\ pc = "lnd_list_peers"
    /\ \E reply \in Replies(ListBodies("peers")) :
           TestCalls("LND", "list_peers", LND_list_peers(client, reply),
                     "lnd_list_invoices")

TestLndListInvoices ==
    /\ pc = "lnd_list_invoices"
    /\ \E reply \in Replies(ListBodies("invoices")) :
           TestCalls("LND", "list_invoices", LND_list_invoices(client, FALSE, reply),
                     "return")

TestClnClient ==
    /\ pc = "test_cln"
    /\ TestConstructs("CLN", "bob", CLN_init(config, fs, "bob"), "cln_get_info")

TestClnGetInfo ==
    /\ pc = "cln_get_info"
    /\ \E reply \in Replies(InfoBodies("CLN")) :
           TestCalls("CLN", "get_info", CLN_get_info(client, reply), "cln_get_balance")

TestClnGetBalance ==
    /\ pc = "cln_get_balance"
    /\ \E reply \in Replies(ListFundsBodies) :
           TestCalls("CLN", "get_balance", CLN_get_balance(client, reply),
                     "cln_list_peers")

TestClnListPeers ==
    /\ pc = "cln_list_peers"
    /\ \E reply \in Replies(ListBodies("peers")) :
           TestCalls("CLN", "list_peers", CLN_list_peers(client, reply),
                     "cln_list_invoices")

TestClnListInvoices ==
    /\ pc = "cln_list_invoices"
    /\ \E reply \in Replies(ListBodies("invoices")) :
           TestCalls("CLN", "list_invoices", CLN_list_invoices(client, reply), "return")

\* main() prints the two results and exits.
MainExits ==
    /\ pc = "summary"
    /\ pc' = "exited"
    /\ console' = console \o <<Summary("LND", lnd_result), Summary("CLN", cln_result)>>
    /\ exit_status' = Some(IF lnd_result = Some(TRUE) /\ cln_result = Some(TRUE) THEN 0 ELSE 1)
    /\ UNCHANGED <<environ, config, fs, client, last, http, reads, raised,
                   lnd_result, cln_result>>

ScriptNext ==
    \/ MainShowsConfiguration
    \/ TestLndClient
    \/ TestLndGetInfo
    \/ TestLndGetWalletBalance
    \/ TestLndListPeers
    \/ TestLndListInvoices
    \/ TestClnClient
    \/ TestClnGetInfo
    \/ TestClnGetBalance
    \/ TestClnListPeers
    \/ TestClnListInvoices
    \/ MainExits

ScriptSpec == ScriptInit /\ [][ScriptNext]_vars

----------------------------------------------------------------------------
(* cli.py: the polar-cli commands *)

\* --node as the user gives it, or leaves it out.
NodeOptions == {None} \cup {Some(n) : n \in NodeNames}

\* The value click passes for an option with a default.
NodeOr(option, default) == IF IsNone(option) THEN default ELSE option[1]

\* What a command prints: its result, or "Error: {e}" for whatever its try
\* block raised.
CliResult == [kind |-> "result", text |-> <<>>]

CliError(e) == [kind |-> "error", text |-> <<"Error: ">> \o e]

\* A run of polar-cli starts with the environment, the Polar network and the
\* disk as they are.
CliInit ==
    /\ environ \in Envs
    /\ \E polar \in PolarOutcomes : config = load_config(environ, polar)
    /\ fs \in Disks(config)
    /\ client = NoClient
    /\ last = Idle
    /\ http = <<>>
    /\ reads = <<>>
    /\ raised = FALSE
    /\ pc = "shell"
    /\ console = <<>>
    /\ lnd_result = None
    /\ cln_result = None
    /\ exit_status = None

\* The body of every command: load the configuration, construct the client
\* of the command's group for the node of --node, call one operation and
\* print what it returned; an exception of any of these is printed instead.
Command(group, name, option, default, made, op, dones) ==
    LET on   == IF group = "cln" THEN "CLN" ELSE "LND"
        args == [group |-> group, command |-> name, option |-> option,
                 node |-> NodeOr(option, default)]
    IN  /\ pc = "shell"
        /\ pc' = "exited"
        /\ reads' = made.reads
        /\ IF ~made.out.ok
           THEN /\ last' = [on |-> on, op |-> "__init__", args |-> args, out |-> made.out]
                /\ client' = NoClient
                /\ http' = <<>>
                /\ console' = <<CliError(made.out.msg)>>
           ELSE \E done \in dones :
                /\ last' = [on |-> on, op |-> op, args |-> args, out |-> done.out]
                /\ client' = made.out.value
                /\ http' = done.http
                /\ console' = <<IF done.out.ok THEN CliResult ELSE CliError(done.out.msg)>>
        /\ UNCHANGED <<environ, config, fs, raised, lnd_result, cln_result, exit_status>>

\* polar-cli cln info
cln_info ==
    \E option \in NodeOptions :
        LET made == CLN_init(config, fs, NodeOr(option, "bob"))
        IN  Command("cln", "info", option, "bob", made, "get_info",
                {CLN_get_info(made.out.value, reply) :
                   reply \in Replies(InfoBodies("CLN"))})

\* polar-cli lnd info
lnd_info ==
    \E option \in NodeOptions :
        LET made == LND_init(config, fs, NodeOr(option, "alice"))
        IN  Command("lnd", "info", option, "alice", made, "get_info",
                {LND_get_info(made.out.value, reply) :
                   reply \in Replies(InfoBodies("LND"))})

\* polar-cli cln balance
cln_balance ==
    \E option \in NodeOptions :
        LET made == CLN_init(config, fs, NodeOr(option, "bob"))
        IN  Command("cln", "balance", option, "bob", made, "get_balance",
                {CLN_get_balance(made.out.value, reply) :
                   reply \in Replies(ListFundsBodies)})

\* polar-cli lnd balance
lnd_balance ==
    \E option \in NodeOptions :
        LET made == LND_init(config, fs, NodeOr(option, "alice"))
        IN  Command("lnd", "balance", option, "alice", made, "get_balance",
                {LND_get_balance(made.out.value, reply1, reply2) :
                   reply1 \in Replies(WalletBodies), reply2 \in Replies(ChannelBalanceBodies)})

\* polar-cli cln channels
cln_channels ==
    \E option \in NodeOptions :
        LET made == CLN_init(config, fs, NodeOr(option, "bob"))
        IN  Command("cln", "channels", option, "bob", made, "list_channels",
                {CLN_list_channels(made.out.value, reply) :
                   reply \in Replies(ListBodies("channels"))})

\* polar-cli lnd channels
lnd_channels ==
    \E option \in NodeOptions :
        LET made == LND_init(config, fs, NodeOr(option, "bob"))
        IN  Command("lnd", "channels", option, "bob", made, "list_channels",
                {LND_list_channels(made.out.value, reply) :
                   reply \in Replies(ListBodies("channels"))})

\* polar-cli cln peers
cln_peers ==
    \E option \in NodeOptions :
        LET made == CLN_init(config, fs, NodeOr(option, "bob"))
        IN  Command("cln", "peers", option, "bob", made, "list_peers",
                {CLN_list_peers(made.out.value, reply) :
                   reply \in Replies(ListBodies("peers"))})

\* polar-cli lnd wallet-balance
lnd_wallet_balance ==
    \E option \in NodeOptions :
        LET made == LND_init(config, fs, NodeOr(option, "alice"))
        IN  Command("lnd", "wallet_balance", option, "alice", made, "get_wallet_balance",
                {LND_get_wallet_balance(made.out.value, reply) :
                   reply \in Replies(WalletBodies)})

\* polar-cli lnd channel-balance
lnd_channel_balance ==
    \E option \in NodeOptions :
        LET made == LND_init(config, fs, NodeOr(option, "alice"))
        IN  Command("lnd", "channel_balance", option, "alice", made, "get_channel_balance",
                {LND_get_channel_balance(made.out.value, reply) :
                   reply \in Replies(ChannelBalanceBodies)})

\* polar-cli cln create-invoice
cln_create_invoice ==
    \E option \in NodeOptions :
        LET made == CLN_init(config, fs, NodeOr(option, "bob"))
        IN  Command("cln", "create_invoice", option, "bob", made, "create_invoice",
                {CLN_create_invoice(made.out.value, amount, label, description, reply) :
                   amount \in SatAmounts, label \in Labels, description \in Texts,
                   reply \in Replies(ResultBodies)})

\* polar-cli cln pay-invoice
cln_pay_invoice ==
    \E option \in NodeOptions :
        LET made == CLN_init(config, fs, NodeOr(option, "bob"))
        IN  Command("cln", "pay_invoice", option, "bob", made, "pay_invoice",
                {CLN_pay_invoice(made.out.value, payment_request, amount, reply) :
                   payment_request \in PaymentRequests, amount \in OverrideAmounts,
                   reply \in Replies(ResultBodies)})

\* polar-cli cln list-invoices
cln_list_invoices ==
    \E option \in NodeOptions :
        LET made == CLN_init(config, fs, NodeOr(option, "bob"))
        IN  Command("cln", "list_invoices", option, "bob", made, "list_invoices",
                {CLN_list_invoices(made.out.value, reply) :
                   reply \in Replies(ListBodies("invoices"))})

\* polar-cli cln list-payments
cln_list_payments ==
    \E option \in NodeOptions :
        LET made == CLN_init(config, fs, NodeOr(option, "bob"))
        IN  Command("cln", "list_payments", option, "bob", made, "list_payments",
                {CLN_list_payments(made.out.value, reply) :
                   reply \in Replies(ListBodies("pays"))})

\* polar-cli lnd create-invoice
lnd_create_invoice ==
    \E option \in NodeOptions :
        LET made == LND_init(config, fs, NodeOr(option, "alice"))
        IN  Command("lnd", "create_invoice", option, "alice", made, "create_invoice",
                {LND_create_invoice(made.out.value, amount, memo, expiry, reply) :
                   amount \in SatAmounts, memo \in Texts, expiry \in Expiries,
                   reply \in Replies(ResultBodies)})

\* polar-cli lnd pay-invoice
lnd_pay_invoice ==
    \E option \in NodeOptions :
        LET made == LND_init(config, fs, NodeOr(option, "alice"))
        IN  Command("lnd", "pay_invoice", option, "alice", made, "pay_invoice",
                {LND_pay_invoice(made.out.value, payment_request, amount, reply) :
                   payment_request \in PaymentRequests, amount \in OverrideAmounts,
                   reply \in Replies(ResultBodies)})

\* polar-cli lnd list-invoices
lnd_list_invoices ==
    \E option \in NodeOptions :
        LET made == LND_init(config, fs, NodeOr(option, "alice"))
        IN  Command("lnd", "list_invoices", option, "alice", made, "list_invoices",
                {LND_list_invoices(made.out.value, pending_only, reply) :
                   pending_only \in BOOLEAN, reply \in Replies(ListBodies("invoices"))})

\* polar-cli lnd list-payments
lnd_list_payments ==
    \E option \in NodeOptions :
        LET made == LND_init(config, fs, NodeOr(option, "alice"))
        IN  Command("lnd", "list_payments", option, "alice", made, "list_payments",
                {LND_list_payments(made.out.value, reply) :
                   reply \in Replies(ListBodies("payments"))})

\* polar-cli lnd peers
lnd_peers ==
    \E option \in NodeOptions :
        LET made == LND_init(config, fs, NodeOr(option, "alice"))
        IN  Command("lnd", "peers", option, "alice", made, "list_peers",
                {LND_list_peers(made.out.value, reply) :
                   reply \in Replies(ListBodies("peers"))})

\* The process ends; the user may run another command.
CliExits ==
    /\ pc = "exited"
    /\ pc' = "shell"
    /\ last' = Idle
    /\ client' = NoClient
    /\ http' = <<>>
    /\ reads' = <<>>
    /\ console' = <<>>
    /\ UNCHANGED <<environ, config, fs, raised, lnd_result, cln_result, exit_status>>

CliNext ==
    \/ cln_info
    \/ lnd_info
    \/ cln_balance
    \/ lnd_balance
    \/ cln_channels
    \/ lnd_channels
    \/ cln_peers
    \/ lnd_wallet_balance
    \/ lnd_channel_balance
    \/ cln_create_invoice
    \/ cln_pay_invoice
    \/ cln_list_invoices
    \/ cln_list_payments
    \/ lnd_create_invoice
    \/ lnd_pay_invoice
    \/ lnd_list_invoices
    \/ lnd_list_payments
    \/ lnd_peers
    \/ CliExits

CliSpec == CliInit /\ [][CliNext]_vars

---------------------------------------------------------------------------
(* The error kinds of the specification, as the code raises them *)

ConfigurationError == "ValueError"

ConnectivityError == "ConnectionError"

CLNCall == last.on = "CLN" /\ last.op \notin {"idle", "__init__"}

LNDCall == last.on = "LND" /\ last.op \notin {"idle", "__init__"}

RECURSIVE SetSum(_, _)
SetSum(f, S) ==
    IF S = {} THEN 0
    ELSE LET x == CHOOSE y \in S : TRUE IN f[x] + SetSum(f, S \ {x})

---------------------------------------------------------------------------
(* C1 *)

C1_Outputs == GetOr(http[1].reply.body, "outputs", <<>>)

C1_Channels == GetOr(http[1].reply.body, "channels", <<>>)

C1_Confirmed ==
    {i \in 1..Len(C1_Outputs) :
        "status" \in DOMAIN C1_Outputs[i] /\ C1_Outputs[i].status = "confirmed"}

\* The millisatoshi the claim counts: confirmed outputs and all channels.
C1_TotalMsat ==
    SetSum([i \in C1_Confirmed |-> C1_Outputs[i].amount_msat], C1_Confirmed)
        + SetSum([i \in 1..Len(C1_Channels) |-> C1_Channels[i].our_amount_msat],
                 1..Len(C1_Channels))

C1_WellFormed ==
    /\ http[1].reply.json_ok /\ http[1].reply.status = 200 /\ http[1].reply.net = "ok"
    /\ \A i \in C1_Confirmed : "amount_msat" \in DOMAIN C1_Outputs[i]
    /\ \A i \in 1..Len(C1_Channels) : "our_amount_msat" \in DOMAIN C1_Channels[i]

\* C1: CoreLightningClient.get_balance returns, for every listfunds response
\* it can sum, the floor of (confirmed outputs' amount_msat + all channels'
\* our_amount_msat) / 1000: outputs of another status add nothing, and the
\* total is divided once, its remainder dropped.
C1_BalanceIsFloorOfConfirmedPlusChannels ==
    (last.on = "CLN" /\ last.op = "get_balance") =>
        /\ C1_WellFormed <=> last.out.ok
        /\ last.out.ok =>
              /\ last.out.value = C1_TotalMsat \div 1000
              /\ 1000 * last.out.value <= C1_TotalMsat
              /\ C1_TotalMsat < 1000 * (last.out.value + 1)

\* A balance returned for funds with an unconfirmed output and a remainder,
\* whose amounts floored one by one would sum to 0 and whose total rounded
\* up would be 2.
C1_Witness ==
    /\ last.on = "CLN" /\ last.op = "get_balance" /\ last.out.ok
    /\ \E i \in 1..Len(C1_Outputs) :
           C1_Outputs[i].status = "unconfirmed" /\ C1_Outputs[i].amount_msat = 1500
    /\ C1_Confirmed # {}
    /\ C1_TotalMsat = 1999
    /\ last.out.value = 1

---------------------------------------------------------------------------
(* C2 *)

C2_Wallet == http[1].reply.body

C2_Channel == http[2].reply.body

\* C2: LNDClient.get_balance returns the wallet's confirmed_balance plus the
\* channels' balance (a missing field counting 0) whatever the
\* unconfirmed_balance, total_balance and pending_open_balance are; for 500
\* confirmed, 100 unconfirmed and a channel balance of 300 it returns 800.
C2_BalanceIsConfirmedPlusChannel ==
    (last.on = "LND" /\ last.op = "get_balance" /\ last.out.ok) =>
        /\ Len(http) = 2
        /\ last.out.value =
              (IF "confirmed_balance" \in DOMAIN C2_Wallet
                   THEN IntOf(C2_Wallet.confirmed_balance) ELSE 0)
              + (IF "balance" \in DOMAIN C2_Channel
                   THEN IntOf(C2_Channel.balance) ELSE 0)
        /\ (/\ Get(C2_Wallet, "confirmed_balance") = Some(<<5, 0, 0>>)
            /\ Get(C2_Wallet, "unconfirmed_balance") = Some(<<1, 0, 0>>)
            /\ Get(C2_Channel, "balance") = Some(<<3, 0, 0>>))
           => last.out.value = 800

C2_Witness ==
    /\ last.on = "LND" /\ last.op = "get_balance" /\ last.out.ok
    /\ Get(C2_Wallet, "confirmed_balance") = Some(<<5, 0, 0>>)
    /\ Get(C2_Wallet, "unconfirmed_balance") = Some(<<1, 0, 0>>)
    /\ Get(C2_Wallet, "total_balance") = Some(<<6, 0, 0>>)
    /\ Get(C2_Channel, "balance") = Some(<<3, 0, 0>>)
    /\ Get(C2_Channel, "pending_open_balance") = Some(<<5, 0>>)
    /\ last.out.value = 800

---------------------------------------------------------------------------
(* C3 *)

\* C3: constructing either client with a node name that is no key of
\* config.nodes raises the configuration error, not the connectivity error,
\* and returns no client; nothing was requested or read.
C3_UnknownNodeIsConfigurationError ==
    (last.op = "__init__" /\ last.args.node_name \notin DOMAIN config) =>
        /\ ~last.out.ok
        /\ last.out.cls = ConfigurationError
        /\ last.out.cls # ConnectivityError
        /\ http = <<>> /\ reads = <<>>

C3_Witness ==
    /\ last.op = "__init__" /\ last.on = "CLN"
    /\ last.args.node_name = "carol"
    /\ DOMAIN config = {"alice", "bob"}
    /\ ~last.out.ok

---------------------------------------------------------------------------
(* C4 *)

\* C4: constructing a CoreLightningClient for an LND node, or an LNDClient
\* for a CLN node, raises the configuration error, and that call issued no
\* HTTP request and opened no credential file.
C4_WrongImplementationIsConfigurationError ==
    (/\ last.op = "__init__"
     /\ last.args.node_name \in DOMAIN config
     /\ config[last.args.node_name].implementation # last.on) =>
        /\ ~last.out.ok
        /\ last.out.cls = ConfigurationError
        /\ http = <<>>
        /\ reads = <<>>

\* A CoreLightningClient asked for an LND node whose credential files exist.
C4_Witness ==
    /\ last.op = "__init__" /\ last.on = "CLN"
    /\ last.args.node_name = "alice"
    /\ "alice" \in DOMAIN config
    /\ config["alice"].implementation = "LND"
    /\ ~IsNone(config["alice"].rest_port)
    /\ fs # {}
    /\ ~last.out.ok

---------------------------------------------------------------------------
(* C5 *)

C5_SocketOnly == Truthy(environ.CLN_SOCKET_PATH) /\ IsNone(environ.CLN_REST_PORT)

\* C5: constructing a CoreLightningClient for a CLN node without a REST port
\* raises the configuration error; the node 'bob' that load_config_from_env
\* builds from CLN_SOCKET_PATH alone is such a node, so under that
\* environment the session never holds a CLN client.
C5_NoRestPortIsConfigurationError ==
    /\ (/\ last.op = "__init__" /\ last.on = "CLN"
        /\ last.args.node_name \in DOMAIN config
        /\ config[last.args.node_name].implementation = "CLN"
        /\ IsNone(config[last.args.node_name].rest_port)) =>
           (~last.out.ok /\ last.out.cls = ConfigurationError)
    /\ C5_SocketOnly =>
           /\ "bob" \in DOMAIN config
           /\ config["bob"].implementation = "CLN"
           /\ IsNone(config["bob"].rest_port)
           /\ client.kind # "CLN"

C5_Witness ==
    /\ C5_SocketOnly
    /\ last.op = "__init__" /\ last.on = "CLN" /\ last.args.node_name = "bob"
    /\ ~last.out.ok
    /\ last.out.msg = <<"REST port not configured for node '", "bob", "'">>

---------------------------------------------------------------------------
(* C6 *)

\* The CLN RPC each operation names.
C6_RpcName ==
    [get_info |-> "getinfo", get_balance |-> "listfunds",
     list_channels |-> "listchannels", list_peers |-> "listpeers",
     create_invoice |-> "invoice", list_invoices |-> "listinvoices",
     pay_invoice |-> "pay", list_payments |-> "listpays",
     connect_peer |-> "connect", open_channel |-> "fundchannel",
     close_channel |-> "close", decode_invoice |-> "decode",
     get_route |-> "getroute"]

C6_NoParameters ==
    {"get_info", "get_balance", "list_channels", "list_peers", "list_invoices",
     "list_payments"}

\* C6: every call of a public operation of CoreLightningClient issues exactly
\* one HTTP request, a POST to {base_url}/v1/{the operation's RPC name}, and
\* its JSON body is the empty object when the operation has no parameters.
C6_OnePostPerOperation ==
    CLNCall =>
        /\ last.op \in DOMAIN C6_RpcName
        /\ Len(http) = 1
        /\ http[1].req.verb = "POST"
        /\ http[1].req.url = client.base_url \o "/v1/" \o C6_RpcName[last.op]
        /\ ~IsNone(http[1].req.json)
        /\ last.op \in C6_NoParameters => http[1].req.json = Some(EmptyObject)
        /\ last.op \notin C6_NoParameters => http[1].req.json # Some(EmptyObject)

C6_Witness ==
    /\ CLNCall /\ last.op = "list_payments" /\ last.out.ok
    /\ http[1].req.url = "http://127.0.0.1:8182/v1/listpays"
    /\ http[1].req.json = Some(EmptyObject)

---------------------------------------------------------------------------
(* C7 *)

\* A call of a public operation of either client.
AnyCall == last.op \notin {"idle", "__init__", "_make_request"}

\* C7 as claimed: every call of an operation of either client issues exactly
\* one HTTP request, a successful LNDClient.get_balance included.
C7_OneRequestPerOperation == AnyCall => Len(http) = 1

\* The channel point is not txid:output_index: it has no colon, or several.
C7_MalformedChannelPoint ==
    Cardinality({i \in 1..Len(last.args.channel_point) :
                    last.args.channel_point[i] = ":"}) # 1

\* C7 as amended: every call issues exactly one HTTP request, except
\* LNDClient.get_balance, which issues two when it succeeds (one when the
\* wallet request fails or its confirmed_balance does not parse), and
\* LNDClient.close_channel, which issues none for a channel point that is
\* not of the form txid:output_index.
C7_RequestsPerOperation ==
    AnyCall =>
        IF last.on = "LND" /\ last.op = "get_balance"
        THEN /\ Len(http) \in {1, 2}
             /\ last.out.ok => Len(http) = 2
             /\ Len(http) = 1 <=>
                    \/ ~http[1].out.ok
                    \/ Get(http[1].out.value, "confirmed_balance") = Some(<<>>)
        ELSE IF last.on = "LND" /\ last.op = "close_channel" /\ C7_MalformedChannelPoint
        THEN Len(http) = 0 /\ ~last.out.ok
        ELSE Len(http) = 1

\* A successful LNDClient.get_balance with its two requests.
C7_Witness ==
    /\ last.on = "LND" /\ last.op = "get_balance" /\ last.out.ok
    /\ Len(http) = 2
    /\ http[1].req.url = client.base_url \o "/v1/balance/blockchain"
    /\ http[2].req.url = client.base_url \o "/v1/balance/channels"

---------------------------------------------------------------------------
(* C8 *)

C8_TransportFailed(reply) == reply.net # "ok"

C8_ProtocolFailed(reply) ==
    reply.net = "ok" /\ (reply.status \notin 200..299 \/ ~reply.json_ok)

\* C8 as claimed: CoreLightningClient's request primitive raises the
\* connectivity error for a transport failure, and for a non-2xx status or
\* a malformed JSON body an error of another kind.
C8_ProtocolErrorIsNotConnectivityError ==
    CLNCall =>
        /\ C8_TransportFailed(http[1].reply) =>
               (~http[1].out.ok /\ http[1].out.cls = ConnectivityError)
        /\ C8_ProtocolFailed(http[1].reply) =>
               (~http[1].out.ok /\ http[1].out.cls # ConnectivityError)

---------------------------------------------------------------------------
(* C9 *)

C9_Names(msg, c, url) == c.node_name \in Range(msg) /\ url \in Range(msg)

\* C9 as claimed: LNDClient's request primitive re-raises a connection
\* failure, a non-2xx status and a JSON decode failure as three failures
\* that can be told apart, and each message names the node and the URL.
C9_ThreeFailuresNameNodeAndUrl ==
    LNDCall =>
        \A i \in 1..Len(http) :
            LET reply == http[i].reply
                out   == http[i].out
                url   == http[i].req.url
            IN  /\ reply.net # "ok" =>
                       /\ ~out.ok /\ out.cls = ConnectivityError
                       /\ C9_Names(out.msg, client, url)
                /\ (reply.net = "ok" /\ reply.status \notin 200..299) =>
                       /\ ~out.ok /\ out.cls = "RuntimeError"
                       /\ out.msg[1] = "HTTP error from LND node '"
                       /\ C9_Names(out.msg, client, url)
                /\ (reply.net = "ok" /\ reply.status \in 200..299 /\ ~reply.json_ok) =>
                       /\ ~out.ok /\ out.cls = "RuntimeError"
                       /\ out.msg[1] # "HTTP error from LND node '"
                       /\ C9_Names(out.msg, client, url)

---------------------------------------------------------------------------
(* C10 *)

C10_Listings == {"list_channels", "list_peers", "list_invoices", "list_payments"}

\* C10 as claimed: a listing operation of either client whose backend
\* replies HTTP 500 raises an error that is not of the connectivity kind and
\* whose message holds the node name and the attempted URL.
C10_Http500IsProtocolError ==
    (/\ AnyCall /\ last.op \in C10_Listings
     /\ http[1].reply.net = "ok" /\ http[1].reply.status = 500) =>
        /\ ~last.out.ok
        /\ last.out.cls # ConnectivityError
        /\ client.node_name \in Range(last.out.msg)
        /\ http[1].req.url \in Range(last.out.msg)

---------------------------------------------------------------------------
(* C11 *)

\* The verb each accepted spelling of a method dispatches to.
C11_Dispatch ==
    [GET |-> "GET", get |-> "GET", Post |-> "POST", DELETE |-> "DELETE",
     delete |-> "DELETE"]

\* C11: LNDClient._make_request sends a GET, POST or DELETE for these method
\* names in any letter case; for any other method name it raises the
\* configuration error and sends no HTTP request.
C11_UnsupportedMethodIsConfigurationError ==
    (last.on = "LND" /\ last.op = "_make_request") =>
        IF last.args.method \in DOMAIN C11_Dispatch
        THEN /\ Len(http) = 1
             /\ http[1].req.verb = C11_Dispatch[last.args.method]
        ELSE /\ ~last.out.ok
             /\ last.out.cls = ConfigurationError
             /\ http = <<>>

C11_Witness ==
    /\ last.on = "LND" /\ last.op = "_make_request"
    /\ last.args.method = "patch"
    /\ ~last.out.ok
    /\ last.out.msg = <<"Unsupported HTTP method: ", "patch">>

---------------------------------------------------------------------------
(* C12 *)

\* C12 as claimed: CoreLightningClient.pay_invoice sends amount_msat equal to
\* 1000 times the override amount whenever the caller gives one, whatever
\* the integer, and sends bolt11 alone when the caller gives none.
C12_OverrideAmountIsSent ==
    (last.on = "CLN" /\ last.op = "pay_invoice") =>
        LET params == http[1].req.json[1]
        IN  IF IsNone(last.args.amount_sats)
            THEN params = [bolt11 |-> last.args.payment_request]
            ELSE params = [bolt11 |-> last.args.payment_request,
                           amount_msat |-> 1000 * last.args.amount_sats[1]]

---------------------------------------------------------------------------
(* C13 *)

C13_Params == http[1].req.json[1]

\* The millisatoshi fields of the requests: each one that is sent is 1000
\* times the caller's satoshi value.
C13_MsatFields ==
    /\ last.op \in {"create_invoice", "get_route"} =>
           C13_Params.amount_msat = 1000 * last.args.amount_sats
    /\ (last.op = "pay_invoice" /\ "amount_msat" \in DOMAIN C13_Params) =>
           /\ ~IsNone(last.args.amount_sats)
           /\ C13_Params.amount_msat = 1000 * last.args.amount_sats[1]
    /\ last.op = "open_channel" =>
           /\ last.args.push_sats > 0 <=> "push_msat" \in DOMAIN C13_Params
           /\ "push_msat" \in DOMAIN C13_Params =>
                  C13_Params.push_msat = 1000 * last.args.push_sats

---------------------------------------------------------------------------
(* C14 *)

C14_Body == http[1].req.json[1]

\* The caller's whole-satoshi value as a JSON string of decimal digits.
C14_NumericString(sats) == JStr(ToString(sats))

\* C14 as claimed: every amount LNDClient puts in a request body is the
\* caller's satoshi value, unscaled, as a JSON string and never as a JSON
\* number.
C14_AmountsAreNumericStrings ==
    (LNDCall /\ Len(http) = 1) =>
        /\ last.op = "create_invoice" =>
               C14_Body.value = C14_NumericString(last.args.amount_sats)
        /\ (last.op = "pay_invoice" /\ "amt" \in DOMAIN C14_Body) =>
               C14_Body.amt = C14_NumericString(last.args.amount_sats[1])
        /\ last.op = "open_channel" =>
               /\ C14_Body.local_funding_amount = C14_NumericString(last.args.amount_sats)
               /\ C14_Body.push_sat = C14_NumericString(last.args.push_sats)
        /\ last.op = "get_route" =>
               C14_Body.amt = C14_NumericString(last.args.amount_sats)

---------------------------------------------------------------------------
(* C15 *)

\* The channel point has no colon, or more than one.
C15_Malformed(channel_point) ==
    Cardinality({i \in 1..Len(channel_point) : channel_point[i] = ":"}) # 1

\* The kind of error close_channel raises when its DELETE request fails.
C15_DeleteFailureKind ==
    LND_close_channel(client, <<"tx9", ":", "0">>, FALSE, StatusReply(500)).out.cls

\* C15 as claimed: LNDClient.close_channel given a channel point that is not
\* txid:output_index raises an input-validation error, of another kind than
\* the error it raises when the DELETE request fails.
C15_MalformedChannelPointIsValidationError ==
    (/\ last.on = "LND" /\ last.op = "close_channel"
     /\ C15_Malformed(last.args.channel_point)) =>
        /\ ~last.out.ok
        /\ last.out.cls # C15_DeleteFailureKind

---------------------------------------------------------------------------
(* C17 *)

\* The request failed: a transport error, a status outside 2xx, or a body
\* that is not JSON.
C17_Failed(reply) ==
    reply.net # "ok" \/ reply.status \notin 200..299 \/ ~reply.json_ok

\* C17: in every call of an operation of either client, a failed HTTP
\* request is the last request of the call, the request primitive raised
\* for it, and the call ends by raising an error: nothing is sent again and
\* no result is returned after a failure.
C17_NoRetryAfterFailure ==
    last.op \notin {"idle", "__init__"} =>
        \A i \in 1..Len(http) :
            C17_Failed(http[i].reply) =>
                /\ i = Len(http)
                /\ ~http[i].out.ok
                /\ ~last.out.ok

\* LNDClient.get_balance whose first request fails: the second is not made.
C17_Witness ==
    /\ last.on = "LND" /\ last.op = "get_balance"
    /\ Len(http) = 1
    /\ http[1].reply.net = "refused"
    /\ ~last.out.ok

---------------------------------------------------------------------------
(* C18 *)

C18_Counts ==
    {"num_peers", "num_pending_channels", "num_active_channels", "num_inactive_channels"}

\* The record's field holding the node's identity.
C18_Identity == IF last.on = "CLN" THEN "id" ELSE "identity_pubkey"

\* The record has an integer under the count k: LNDClient returns the count
\* itself, CoreLightningClient the count or None.
C18_IntegerCount(k) ==
    IF last.on = "CLN"
    THEN ~IsNone(last.out.value[k]) /\ last.out.value[k][1] \in Nat
    ELSE last.out.value[k] \in Nat

C18_NonNull ==
    /\ ~IsNone(last.out.value[C18_Identity])
    /\ ~IsNone(last.out.value.alias)
    /\ ~IsNone(last.out.value.version)

\* C18 as claimed: whenever get_info of either client succeeds, on any 2xx
\* reply whose body is a JSON object, the record has a non-null identity,
\* alias and version and an integer for the peer count and every channel
\* count.
C18_GetInfoRecordIsComplete ==
    (last.op = "get_info" /\ last.out.ok) =>
        /\ C18_NonNull
        /\ \A k \in C18_Counts : C18_IntegerCount(k)

\* C18 as amended: whenever get_info succeeds, the record's identity, alias
\* and version are non-null exactly when the reply's body carries them (id
\* for Core Lightning, identity_pubkey for LND); LNDClient's counts are
\* integers always, 0 standing for a count the body lacks, and
\* CoreLightningClient's counts are integers exactly when the body carries
\* them.
C18_GetInfoRecordMirrorsReply ==
    (last.op = "get_info" /\ last.out.ok) =>
        LET body == http[1].reply.body
        IN  /\ \A k \in {C18_Identity, "alias", "version"} :
                   last.out.value[k] = Get(body, k)
            /\ \A k \in C18_Counts :
                   IF last.on = "CLN"
                   THEN /\ last.out.value[k] = Get(body, k)
                        /\ C18_IntegerCount(k) <=> k \in DOMAIN body
                   ELSE /\ C18_IntegerCount(k)
                        /\ last.out.value[k] = GetOr(body, k, 0)

\* LNDClient.get_info on a reply without counts: a complete record, its
\* counts 0.
C18_Witness ==
    /\ last.on = "LND" /\ last.op = "get_info" /\ last.out.ok
    /\ "num_peers" \notin DOMAIN http[1].reply.body
    /\ C18_NonNull
    /\ \A k \in C18_Counts : last.out.value[k] = 0

---------------------------------------------------------------------------
(* C19 *)

\* The record each class returns for a complete getinfo reply of its backend.
C19_CLNRecord == CLN_get_info(client, JsonReply(CLNInfoBody)).out.value

C19_LNDRecord == LND_get_info(client, JsonReply(LNDInfoBody)).out.value

\* C19 as claimed: the record get_info returns has the same field names
\* whichever client returned it.
C19_GetInfoSameFieldNames ==
    (last.op = "get_info" /\ last.out.ok) =>
        /\ DOMAIN last.out.value = DOMAIN C19_CLNRecord
        /\ DOMAIN last.out.value = DOMAIN C19_LNDRecord

---------------------------------------------------------------------------
(* C20 *)

\* The macaroon header of a file holding the bytes 0x02 0xab 0x10.
C20_MacaroonHeader == <<"Grpc-Metadata-macaroon", <<"0", "2", "a", "b", "1", "0">>>>

\* An LNDClient has just been asked for a node that is an LND node.
C20_Constructing ==
    /\ last.op = "__init__" /\ last.on = "LND"
    /\ last.args.node_name \in DOMAIN config
    /\ config[last.args.node_name].implementation = "LND"

C20_MacaroonExists ==
    LET path == config[last.args.node_name].macaroon_path
    IN  ~IsNone(path) /\ path[1] \in fs

\* Construction succeeds with or without the file, and the client's headers
\* are the hex-encoded macaroon when the file exists and empty otherwise.
C20_HeaderAtConstruction ==
    C20_Constructing =>
        /\ last.out.ok
        /\ client = last.out.value
        /\ client.headers = IF C20_MacaroonExists THEN {C20_MacaroonHeader} ELSE {}

\* Every request of a call carries the client's headers.
C20_HeaderOnEveryRequest ==
    LNDCall => \A i \in 1..Len(http) : http[i].req.headers = client.headers

\* Only a construction changes the client.
C20_HeaderIsFixed == (last'.op # "__init__") => (client' = client)

\* C20: an LNDClient constructed while its configured macaroon file exists
\* carries, on every request of its lifetime, the header holding the hex
\* encoding of the file's bytes; constructed with no macaroon path or no
\* such file, it is constructed without error and none of its requests
\* carries a macaroon header.
C20_MacaroonHeaderForLifetime ==
    /\ [](C20_HeaderAtConstruction /\ C20_HeaderOnEveryRequest)
    /\ [][C20_HeaderIsFixed]_vars

\* A request that carries the macaroon after the file has gone.
C20_Witness ==
    /\ LNDCall /\ last.op = "list_peers"
    /\ fs = {}
    /\ http[1].req.headers = {C20_MacaroonHeader}

---------------------------------------------------------------------------
(* C21 *)

\* An LNDClient has just been asked for an LND node of the configuration.
C21_Constructing ==
    /\ last.op = "__init__" /\ last.on = "LND"
    /\ last.args.node_name \in DOMAIN config
    /\ config[last.args.node_name].implementation = "LND"

C21_CertPath == config[last.args.node_name].cert_path

C21_CertExists == ~IsNone(C21_CertPath) /\ C21_CertPath[1] \in fs

\* Construction succeeds, and the client verifies against the configured
\* certificate when the file exists and does not verify at all otherwise.
C21_VerifyAtConstruction ==
    C21_Constructing =>
        /\ last.out.ok
        /\ client = last.out.value
        /\ C21_CertExists =>
               (client.verify.check /\ client.verify.ca = C21_CertPath)
        /\ ~C21_CertExists =>
               (~client.verify.check /\ IsNone(client.verify.ca))

\* Every request of a call is sent with the client's verification setting.
C21_VerifyOnEveryRequest ==
    LNDCall => \A i \in 1..Len(http) : http[i].req.verify = client.verify

\* Calls and changes of the disk leave the client as it was constructed.
C21_VerifyIsFixed ==
    (last'.op # "__init__" /\ client.kind = "LND") => (client'.verify = client.verify)

\* C21: an LNDClient verifies every request against the configured
\* certificate exactly when the certificate path was configured and the
\* file existed at construction; constructed with no path or a missing
\* file, it is constructed without error and sends every request with
\* verification disabled.
C21_TlsVerificationForLifetime ==
    /\ [](C21_VerifyAtConstruction /\ C21_VerifyOnEveryRequest)
    /\ [][C21_VerifyIsFixed]_vars

\* A request sent unverified by a client constructed while the configured
\* certificate file was missing, although the file exists by now.
C21_Witness ==
    /\ LNDCall /\ last.op = "get_info"
    /\ ~IsNone(config[client.node_name].cert_path)
    /\ config[client.node_name].cert_path[1] \in fs
    /\ ~http[1].req.verify.check

---------------------------------------------------------------------------
(* C22 *)

\* A CoreLightningClient has just been asked for a CLN node with a REST port.
C22_Constructing ==
    /\ last.op = "__init__" /\ last.on = "CLN"
    /\ last.args.node_name \in DOMAIN config
    /\ config[last.args.node_name].implementation = "CLN"
    /\ PortConfigured(config[last.args.node_name].rest_port)

\* The file a path of the configuration names is not there to be read.
C22_Missing(path) == IsNone(path) \/ path[1] \notin fs

\* C22 as claimed: constructing a CoreLightningClient for a CLN node with a
\* REST port always succeeds, and the client has no Rune header when the
\* rune file is missing, no client certificate when a file of the pair is
\* missing, and the default verification when the CA certificate is missing.
C22_AuthSetupIsBestEffort ==
    C22_Constructing =>
        LET nc == config[last.args.node_name]
        IN  /\ last.out.ok
            /\ C22_Missing(nc.rune_path) => last.out.value.headers = {}
            /\ (C22_Missing(nc.client_cert_path) \/ C22_Missing(nc.client_key_path)) =>
                   IsNone(last.out.value.cert)
            /\ C22_Missing(nc.ca_cert_path) => last.out.value.verify = DefaultVerify

---------------------------------------------------------------------------
(* C23 *)

\* C23 as claimed: constructing an LNDClient for an LND node never fails for
\* want of a REST port, and the port of its base URL is 8080 when the node's
\* rest_port is unset and the configured rest_port otherwise.
C23_DefaultPortOnlyWhenUnset ==
    (/\ last.op = "__init__" /\ last.on = "LND"
     /\ last.args.node_name \in DOMAIN config
     /\ config[last.args.node_name].implementation = "LND") =>
        LET nc   == config[last.args.node_name]
            port == IF IsNone(nc.rest_port) THEN 8080 ELSE nc.rest_port[1]
        IN  /\ last.out.ok
            /\ last.out.value.base_url = "https://" \o nc.rpc_host \o ":" \o ToString(port)

---------------------------------------------------------------------------
(* C24 *)

\* The step is a call of an operation on the client.
C24_IsCall == last.op = "idle" /\ last'.op \notin {"idle", "__init__"}

\* The step leaves the client's connection and credential settings alone.
C24_Frame ==
    /\ client'.base_url = client.base_url
    /\ client'.node_name = client.node_name
    /\ client'.headers = client.headers
    /\ client'.cert = client.cert
    /\ client'.verify = client.verify

\* C24: no call of an operation of either client, whether it returns or
\* raises, changes the client's base URL, node name, authentication header,
\* client certificate or verification setting; they are as construction
\* left them before and after every call.
C24_CallsLeaveClientUnchanged == [][C24_IsCall => C24_Frame]_vars

\* A failed call of a client that holds its Rune header and certificates.
C24_Witness ==
    /\ CLNCall /\ ~last.out.ok
    /\ client.headers = {<<"Rune", <<"r", "9", "=">>>>}
    /\ ~IsNone(client.cert)
    /\ http[1].req.headers = client.headers

----------------------------------------------------------------------------
(* C25 *)

\* The fields an LND reply carries as decimal strings, and the operations
\* that parse them.
C25_NumberKeys ==
    {"confirmed_balance", "unconfirmed_balance", "total_balance", "balance",
     "pending_open_balance", "num_satoshis", "timestamp", "expiry"}

C25_ParsesNumbers ==
    last.on = "LND"
        /\ last.op \in {"get_balance", "get_wallet_balance", "get_channel_balance",
                        "decode_invoice"}

\* A reply of a healthy backend: HTTP 200 with a JSON body whose amounts are
\* all there.
C25_HealthyReply(reply) ==
    /\ reply.json_ok
    /\ \A i \in 1..Len(GetOr(reply.body, "outputs", <<>>)) :
           "amount_msat" \in DOMAIN reply.body.outputs[i]
    /\ C25_ParsesNumbers =>
           \A k \in DOMAIN reply.body \cap C25_NumberKeys : reply.body[k] # <<>>

\* The call reached the backend and every reply it got was healthy.
C25_HealthyBackend ==
    /\ AnyCall
    /\ Len(http) >= 1
    /\ \A i \in 1..Len(http) : C25_HealthyReply(http[i].reply)

\* C25: a client object is reused for call after call, and what an operation
\* returns depends on its arguments and on the backend's reply to it, not on
\* the calls made before: whenever the backend answers a call healthily the
\* call succeeds, also on a client one of whose earlier calls raised.
C25_HealthyBackendSucceeds == C25_HealthyBackend => last.out.ok

\* A call succeeds on a client object one of whose earlier calls raised.
C25_Witness == C25_HealthyBackend /\ raised /\ last.out.ok

----------------------------------------------------------------------------
(* C26 *)

\* The lines of one kind a test function has printed.
C26_Lines(section, kind) ==
    {i \in 1..Len(console) : console[i].section = section /\ console[i].kind = kind}

\* The test function ran to its end: its client and its four calls passed.
C26_Succeeded(section) ==
    Cardinality(C26_Lines(section, "passed")) = 5 /\ C26_Lines(section, "failed") = {}

\* The error a step raised is the line the script printed last.
C26_FailureIsDisplayed ==
    (pc \notin {"main", "test_lnd", "exited"} /\ ~last.out.ok)
        => console[Len(console)] = TestFailed(last.on, last.out.msg)

\* The error ends its own test function and nothing else: no step of that
\* function passes after it, and it is the only one.
C26_FailureEndsItsSection ==
    \A section \in {"LND", "CLN"} :
        \A i \in C26_Lines(section, "failed") :
            /\ C26_Lines(section, "failed") = {i}
            /\ \A j \in C26_Lines(section, "passed") : j < i

\* C26: a client failure in the test script is displayed and ends only the
\* test function it happened in: test_cln runs whether test_lnd passed or
\* failed, and the script exits with status 0 exactly when both test functions
\* ran to their end, with status 1 otherwise.
C26_FailureIsPerSection ==
    /\ C26_FailureIsDisplayed
    /\ C26_FailureEndsItsSection
    /\ pc = "exited" =>
           /\ C26_Lines("LND", "banner") # {} /\ C26_Lines("CLN", "banner") # {}
           /\ exit_status \in {Some(0), Some(1)}
           /\ exit_status = Some(0) <=> (C26_Succeeded("LND") /\ C26_Succeeded("CLN"))

\* test_lnd failed at its second call, test_cln ran to its end nonetheless,
\* and the script exited with status 1.
C26_Witness ==
    /\ pc = "exited"
    /\ Cardinality(C26_Lines("LND", "passed")) = 2
    /\ C26_Lines("LND", "failed") # {}
    /\ C26_Succeeded("CLN")
    /\ exit_status = Some(1)

----------------------------------------------------------------------------
(* C27 *)

C27_RuntimeError == "RuntimeError"

\* The operations that change the node or compute from an invoice.
C27_Actions ==
    {"create_invoice", "pay_invoice", "connect_peer", "open_channel", "close_channel",
     "decode_invoice", "get_route"}

\* The error kind of each public operation of each client.
C27_Kind(on, op) ==
    IF op \in C27_Actions THEN C27_RuntimeError
    ELSE IF on = "CLN" THEN ConnectivityError
    ELSE IF op \in {"get_info", "get_balance", "list_channels", "list_peers"}
         THEN ConnectivityError
    ELSE C27_RuntimeError

\* C27: the kind of error an operation raises is fixed by the operation and
\* not by the cause.  The CLN queries (get_info, get_balance, the four
\* list_*) raise ConnectionError, also for a non-2xx status, malformed JSON or
\* a missing field; create_invoice, pay_invoice, connect_peer, open_channel,
\* close_channel, decode_invoice and get_route raise RuntimeError, also for a
\* transport failure; of the LND listings list_channels and list_peers raise
\* ConnectionError, list_invoices and list_payments RuntimeError.
C27_KindIsFixedByOperation ==
    (AnyCall /\ ~last.out.ok) => last.out.cls = C27_Kind(last.on, last.op)

\* The same transport failure surfaced as a RuntimeError by LND
\* list_invoices.
C27_Witness ==
    /\ LNDCall /\ last.op = "list_invoices" /\ ~last.out.ok
    /\ Len(http) = 1 /\ http[1].reply.net = "refused"
    /\ last.out.cls = C27_RuntimeError

----------------------------------------------------------------------------
(* C28 *)

C28_GetBalance == LNDCall /\ last.op = "get_balance"

C28_IsGet(call, endpoint) ==
    call.req.verb = "GET" /\ call.req.url = client.base_url \o endpoint

\* C28: LNDClient.get_balance sends GET /v1/balance/blockchain first and GET
\* /v1/balance/channels second; when the first request fails the second is
\* never sent; when either fails the operation raises, and it returns a sum
\* only of two balances it has both received.
C28_WalletThenChannels ==
    C28_GetBalance =>
        /\ Len(http) \in {1, 2}
        /\ C28_IsGet(http[1], "/v1/balance/blockchain")
        /\ Len(http) = 2 => C28_IsGet(http[2], "/v1/balance/channels")
        /\ ~http[1].out.ok => Len(http) = 1
        /\ (\E i \in 1..Len(http) : ~http[i].out.ok) => ~last.out.ok
        /\ last.out.ok =>
               /\ Len(http) = 2
               /\ last.out.value
                      = IntField(http[1].reply.body, "confirmed_balance").value
                          + IntField(http[2].reply.body, "balance").value

\* The wallet request succeeded, the channel request failed, and the
\* operation raised.
C28_Witness ==
    /\ C28_GetBalance
    /\ Len(http) = 2 /\ http[1].out.ok /\ ~http[2].out.ok
    /\ ~last.out.ok

----------------------------------------------------------------------------
(* C29 *)

C29_ConnectPeer == LNDCall /\ last.op = "connect_peer" /\ Len(http) = 1

\* host and port were both given to the call.
C29_Given == HostAndPort(last.args.host, last.args.port)

\* "host:port" of the host and port given to the call.
C29_HostPort == Join(<<last.args.host[1], ":", ToString(last.args.port[1])>>)

\* The parts of node_id around '@'.
C29_Parts == Split(last.args.node_id, "@")

\* The addr of the request body.
C29_Addr == http[1].req.json[1].addr

\* pubkey is node_id up to its '@', and holds none.
C29_Pubkey ==
    /\ "@" \notin Range(C29_Parts[1])
    /\ C29_Addr.pubkey = JStr(Join(C29_Parts[1]))

\* Without host and port, host is the address part of node_id, or "" when
\* node_id has none.
C29_HostWithoutHostPort ==
    ~C29_Given =>
        C29_Addr.host
            = JStr(IF Len(C29_Parts) > 1 THEN Join(C29_Parts[2]) ELSE "")

\* C29: LNDClient.connect_peer posts to /v1/peers an addr whose pubkey holds
\* no '@' and whose host is the peer's network address: "host:port" when host
\* and port are given, with a bare node_id as with a node_id of the form
\* pubkey@address; the address part of node_id when they are not; "" when
\* there is neither.
C29_AddrIsPubkeyAndHost ==
    C29_ConnectPeer =>
        /\ C29_Pubkey
        /\ C29_HostWithoutHostPort
        /\ C29_Given => C29_Addr.host = JStr(C29_HostPort)

----------------------------------------------------------------------------
(* C30 *)

\* A command has run without --node under the built-in fallback
\* configuration.
C30_DefaultNodeOfFallback ==
    pc = "exited" /\ config = DefaultConfig /\ IsNone(last.args.option)

\* C30: under the built-in fallback configuration (alice an LND node, bob a
\* CLN node) every command run without --node constructs its client: the
\* node it defaults to is of the backend kind of the command's group, for
\* every 'cln' command and for every 'lnd' command.
C30_DefaultNodeIsOfGroupKind ==
    C30_DefaultNodeOfFallback =>
        /\ DefaultConfig[last.args.node].implementation = last.on
        /\ last.op # "__init__"
        /\ client.kind = last.on

=============================================================================
